---- MODULE Spec2Model ----
(***************************************************************************)
(* A model of the query engine of the AKEN reporting service:              *)
(*   - the retry harness and the handlers' error responses  (SpecError)    *)
(*   - the query composer and its execution on a store      (SpecQuery)    *)
(*   - the backend router under parallel handlers           (SpecBackend)  *)
(*   - the summary cache: read-through, keys, invalidation  (SpecCache)    *)
(* Every specification drives its own group of variables and leaves the   *)
(* other groups at their idle values.                                      *)
(***************************************************************************)
EXTENDS Integers, Sequences, FiniteSets, TLC

VARIABLES
    \* ---- SpecError: one request whose store calls may fail
    ereq,         \* the request: [endpoint, fieldsOK]
    epc,          \* position: "start", "retry", "sleep", "direct", "respond", "done"
    attempt,      \* RetryWithBackoff: loop variable attempt
    delay,        \* RetryWithBackoff: config.Delay, in seconds
    lastErr,      \* RetryWithBackoff: lastErr (Nil or an error text)
    outcomes,     \* history: the result of each invocation of the store call, in order
    sleeps,       \* the sequence of time.Sleep arguments, in seconds
    printed,      \* number of lines RetryWithBackoff wrote with fmt.Printf
    svcErr,       \* what the service returned to the handler: Nil or an error text
    svcFound,     \* single-record: whether the repository returned a row
    response,     \* the HTTP response: [status, code, message, details]
    cancelled,    \* Nil, or where the request was when its context was cancelled
    \* ---- SpecQuery: one request composed into statements and run on the store
    qreq,         \* the request as it reaches the handler
    qpc,          \* position: "start", "exec", "done" ("idle" outside SpecQuery)
    stmts,        \* the statements the repository composed, in order of composition
    contributing, \* the joined rows the response was computed from
    qresp,        \* the HTTP status of the response (0: none yet)
    \* ---- SpecBackend: requests in parallel on the shared repository
    useMysql,     \* transactionRepository.useMysql
    bhandles,     \* which of postgresDB and mysqlDB are not nil
    bkind,        \* request -> "legacy" or "v2"
    bpc,          \* request -> position
    bstore,       \* request -> the store each of its statements ran on, in order
    \* ---- SpecCache: requests one after another through the cache layers
    cache,        \* the Redis keyspace: a set of [key, val, ttl]
    creq,         \* the request being served
    cpc,          \* position of the request in the middleware chain
    cevents,      \* the cache and store operations of this request, in order
    cresp,        \* the response: [status, body]
    cmutated,     \* scopes with a completed mutating request and no summary request since
    coord,        \* the cache coordinator main built: "live", "noop" or "nil"
    cstore,       \* the rows written to payment_tx_log since the process started
    cauth,        \* whether JWTAuthMiddleware verified the credentials of this request
    cexpired,     \* the tokens whose expiry time has passed
    \* ---- SpecFilter: one list request with a filter expression
    freq,         \* the request: [caller, filter, path], the filter a sequence of tokens
    fpc,          \* position: "start", "query", "done" ("off" outside SpecFilter)
    ffilter,      \* the models.TransactionFilter the service parsed, Nil before
    fstmts,       \* the statements the repository composed for the request
    frows,        \* the ids of the rows of the page the response returns
    fresp,        \* the response: [status, code]
    fcached,      \* whether gin.Context answers c.Query from the query it parsed first
    \* ---- SpecRow: one stored transaction read by the list or the single-record endpoint
    rreq,         \* the request: [endpoint, fields]
    rrow,         \* the stored row: [typeID, reversedID], Nil when no row matches
    rpc,          \* position: "start", "done" ("off" outside SpecRow)
    raliased,     \* whether the driver scans the column alias tx_log_type into Transaction.Type
    rresp         \* the response: [status, data, shown]

evars == <<ereq, epc, attempt, delay, lastErr, outcomes, sleeps, printed,
           svcErr, svcFound, response, cancelled>>

qvars == <<qreq, qpc, stmts, contributing, qresp>>

bvars == <<useMysql, bhandles, bkind, bpc, bstore>>

cvars == <<cache, creq, cpc, cevents, cresp, cmutated, coord, cstore, cauth, cexpired>>

fvars == <<freq, fpc, ffilter, fstmts, frows, fresp, fcached>>

rvars == <<rreq, rrow, rpc, raliased, rresp>>

vars == <<evars, qvars, bvars, cvars, fvars, rvars>>

Nil == <<>>

(***************************************************************************)
(* Error texts.  An error text is a sequence of words; a pattern is a      *)
(* sequence of words too, and a text contains a pattern when the pattern   *)
(* is a contiguous run of the text (strings.Contains on word boundaries).  *)
(***************************************************************************)
ErrConnRefused == <<"dial", "tcp", "connection", "refused">>
ErrBrokenPipe  == <<"write", "broken", "pipe">>
ErrEOF         == <<"unexpected", "EOF">>
ErrTimeout     == <<"i/o", "timeout">>
ErrColumn      == <<"ERROR", "column", "p.device_id", "does", "not", "exist", "SQLSTATE", "42703">>
ErrOutOfRange  == <<"value", "out", "of", "range">>

\* the errors the store driver may return in this model
StoreErrors == {ErrConnRefused, ErrBrokenPipe, ErrEOF, ErrTimeout, ErrColumn, ErrOutOfRange}

\* strings.ToLower on one word (only the words of this model that have capitals)
ToLowerWord(w) ==
    CASE w = "EOF"      -> "eof"
      [] w = "ERROR"    -> "error"
      [] w = "SQLSTATE" -> "sqlstate"
      [] w = "DESC"     -> "desc"
      [] w = "ASC"      -> "asc"
      [] OTHER          -> w

ToLower(s) == [i \in 1..Len(s) |-> ToLowerWord(s[i])]

\* containsSubstring: substr occurs in s at some offset
containsSubstring(s, substr) ==
    \E i \in 0..(Len(s) - Len(substr)) :
        \A j \in 1..Len(substr) : s[i + j] = substr[j]

\* contains: case-sensitive despite its comment
contains(s, substr) ==
    /\ Len(s) >= Len(substr)
    /\ \/ s = substr
       \/ /\ Len(s) > Len(substr)
          /\ containsSubstring(s, substr)

retryablePatterns ==
    { <<"connection", "refused">>, <<"connection", "reset">>, <<"timeout">>,
      <<"network", "is", "unreachable">>, <<"no", "route", "to", "host">>,
      <<"broken", "pipe">>, <<"EOF">> }

IsRetryableError(err) ==
    /\ err # Nil
    /\ \E p \in retryablePatterns : contains(err, p)

internalKeywords ==
    { <<"column">>, <<"does", "not", "exist">>, <<"SQLSTATE">>, <<"syntax", "error">>,
      <<"foreign", "key">>, <<"constraint">>, <<"duplicate">>, <<"unique">>,
      <<"connection">>, <<"timeout">>, <<"deadlock">>, <<"lock">> }

IsInternalError(err) ==
    /\ err # Nil
    /\ \E k \in internalKeywords : containsSubstring(ToLower(err), ToLower(k))

(***************************************************************************)
(* The error taxonomy: code -> user-facing template (one word per          *)
(* template: a template holds no word of an error text).                   *)
(***************************************************************************)
ErrorMessages ==
    [ AUTHENTICATION_FAILED |-> <<"Authentication failed. Please check your credentials.">>,
      AUTHORIZATION_FAILED  |-> <<"Access denied. You don't have permission to access this resource.">>,
      INVALID_FILTER        |-> <<"Invalid filter expression. Please check your filter syntax.">>,
      INVALID_FIELD         |-> <<"Invalid field specified. Please check the field name.">>,
      INVALID_SORT          |-> <<"Invalid sort expression. Please check your sort syntax.">>,
      NOT_FOUND             |-> <<"The requested resource was not found.">>,
      TRANSACTION_NOT_FOUND |-> <<"Transaction not found.">>,
      MERCHANT_NOT_FOUND    |-> <<"Merchant not found.">>,
      DATABASE_ERROR        |-> <<"Service temporarily unavailable. Please try again later.">>,
      INTERNAL_SERVER_ERROR |-> <<"An internal error occurred. Please try again later.">>,
      NOT_IMPLEMENTED       |-> <<"This feature is not yet implemented.">>,
      BAD_REQUEST           |-> <<"Invalid request. Please check your parameters.">>,
      SERVICE_UNAVAILABLE   |-> <<"Service temporarily unavailable. Please try again later.">> ]

GetUserFriendlyMessage(errorCode) ==
    IF errorCode \in DOMAIN ErrorMessages
    THEN ErrorMessages[errorCode]
    ELSE <<"An unexpected error occurred. Please try again later.">>

\* sendErrorResponse: a non-empty message replaces the template
sendErrorResponse(statusCode, errorCode, message, details) ==
    [ status  |-> statusCode,
      code    |-> errorCode,
      message |-> IF message # <<>> THEN message ELSE GetUserFriendlyMessage(errorCode),
      details |-> details ]

OkResponse == [status |-> 200, code |-> "OK", message |-> <<>>, details |-> "none"]
NoResponse == [status |-> 0, code |-> "", message |-> <<>>, details |-> "none"]

\* the idle values of the groups a specification does not drive
IdleQuery ==
    /\ qreq = Nil
    /\ qpc = "idle"
    /\ stmts = <<>>
    /\ contributing = {}
    /\ qresp = 0

IdleCache ==
    /\ cache = {}
    /\ creq = Nil
    /\ cpc = "off"
    /\ cevents = <<>>
    /\ cresp = Nil
    /\ cmutated = {}
    /\ coord = "nil"
    /\ cstore = {}
    /\ cauth = FALSE
    /\ cexpired = {}

IdleFilter ==
    /\ freq = Nil
    /\ fpc = "off"
    /\ ffilter = Nil
    /\ fstmts = <<>>
    /\ frows = {}
    /\ fresp = Nil
    /\ fcached = FALSE

IdleRow ==
    /\ rreq = Nil
    /\ rrow = Nil
    /\ rpc = "off"
    /\ raliased = FALSE
    /\ rresp = Nil

IdleError ==
    /\ ereq = Nil
    /\ epc = "idle"
    /\ attempt = 0
    /\ delay = 0
    /\ lastErr = Nil
    /\ outcomes = <<>>
    /\ sleeps = <<>>
    /\ printed = 0
    /\ svcErr = Nil
    /\ svcFound = TRUE
    /\ response = NoResponse
    /\ cancelled = Nil

IdleBackend ==
    /\ useMysql = FALSE
    /\ bhandles = Nil
    /\ bkind = Nil
    /\ bpc = Nil
    /\ bstore = Nil

(***************************************************************************)
(* The retry harness, RetryWithBackoff(operation, DefaultRetryConfig()).   *)
(***************************************************************************)
MaxAttempts  == 3
DefaultDelay == 1

\* a harness that reports the exhausted budget without the error of the last attempt
WrapFinalDropped(err) == <<"operation", "failed", "after", "3", "attempts">>

\* fmt.Errorf("operation failed after %d attempts: %v", config.MaxAttempts, lastErr)
WrapFinal(err) == <<"operation", "failed", "after", "3", "attempts">> \o err

\* fmt.Errorf("invalid fields: %v", err) around ValidateFields' "invalid field: %s"
InvalidFieldsErr == <<"invalid", "fields", "invalid", "field", "bogus">>

\* "Don't retry on last attempt"
IsLastAttempt(a) == a = MaxAttempts

\* the harness without its backoff: the delay stays what it was
NextDelayConstant(d) == d

\* "Exponential backoff": config.Delay *= 2
NextDelay(d) == d * 2

Endpoints == {"list", "single", "search", "summary"}

\* the outcomes of one store call: success (Nil) or one of the driver's errors
Outcomes == {Nil} \cup StoreErrors

InitError ==
    /\ ereq \in [endpoint : Endpoints, fieldsOK : BOOLEAN]
    /\ epc = "start"
    /\ attempt = 0
    /\ delay = 0
    /\ lastErr = Nil
    /\ outcomes = <<>>
    /\ sleeps = <<>>
    /\ printed = 0
    /\ svcErr = Nil
    /\ svcFound = TRUE
    /\ response = NoResponse
    /\ cancelled = Nil
    /\ IdleQuery
    /\ IdleBackend
    /\ IdleCache
    /\ IdleFilter
    /\ IdleRow

\* transactionService.GetTransactions up to the call of RetryWithBackoff:
\* the fields are validated, then the retry configuration is taken
ListServiceStart ==
    /\ epc = "start"
    /\ ereq.endpoint = "list"
    /\ IF ~ereq.fieldsOK
       THEN /\ svcErr' = InvalidFieldsErr
            /\ epc' = "respond"
            /\ UNCHANGED <<attempt, delay>>
       ELSE /\ attempt' = 1
            /\ delay' = DefaultDelay
            /\ epc' = "retry"
            /\ UNCHANGED svcErr
    /\ UNCHANGED <<ereq, lastErr, outcomes, sleeps, printed, svcFound, response>>
    /\ UNCHANGED cancelled
    /\ UNCHANGED <<qvars, bvars, cvars, fvars, rvars>>

\* RetryWithBackoff: one pass of the loop body up to the sleep
RetryInvoke ==
    /\ epc = "retry"
    /\ attempt <= MaxAttempts
    /\ \E err \in Outcomes :
        /\ outcomes' = Append(outcomes, err)
        /\ IF err = Nil
           THEN /\ svcErr' = Nil
                /\ epc' = "respond"
                /\ UNCHANGED <<lastErr, printed>>
           ELSE /\ lastErr' = err
                /\ IF IsLastAttempt(attempt)
                   THEN /\ svcErr' = WrapFinal(err)
                        /\ epc' = "respond"
                        /\ UNCHANGED printed
                   ELSE /\ printed' = printed + 1
                        /\ epc' = "sleep"
                        /\ UNCHANGED svcErr
    /\ UNCHANGED <<ereq, attempt, delay, sleeps, svcFound, response>>
    /\ UNCHANGED cancelled
    /\ UNCHANGED <<qvars, bvars, cvars, fvars, rvars>>

\* RetryWithBackoff: time.Sleep(config.Delay); config.Delay *= 2; attempt++
RetrySleep ==
    /\ epc = "sleep"
    /\ sleeps' = Append(sleeps, delay)
    /\ delay' = NextDelay(delay)
    /\ attempt' = attempt + 1
    /\ epc' = "retry"
    /\ UNCHANGED <<ereq, lastErr, outcomes, printed, svcErr, svcFound, response>>
    /\ UNCHANGED cancelled
    /\ UNCHANGED <<qvars, bvars, cvars, fvars, rvars>>

\* GetTransactionByID, SearchTransactions and GetMerchantSummary of the service
\* call the repository once, without the harness (the cache coordinator is absent
\* in this specification, so the summary takes the store path)
DirectService ==
    /\ epc = "start"
    /\ ereq.endpoint # "list"
    /\ IF ereq.endpoint \in {"single", "search"} /\ ~ereq.fieldsOK
       THEN /\ svcErr' = InvalidFieldsErr
            /\ UNCHANGED <<outcomes, lastErr, svcFound>>
       ELSE \E err \in Outcomes :
            /\ outcomes' = Append(outcomes, err)
            /\ lastErr' = err
            /\ svcErr' = err
            /\ svcFound' \in (IF ereq.endpoint = "single" /\ err = Nil THEN BOOLEAN ELSE {TRUE})
    /\ epc' = "respond"
    /\ UNCHANGED <<ereq, attempt, delay, sleeps, printed, response>>
    /\ UNCHANGED cancelled
    /\ UNCHANGED <<qvars, bvars, cvars, fvars, rvars>>

\* The client goes away or the deadline of the request passes while the store
\* call of the list service is in flight (epc = "retry") or while the harness
\* sleeps.  Handler, service, harness and repository take no context.Context:
\* nothing of the request changes, only the moment is kept.
Cancel ==
    /\ epc \in {"retry", "sleep"}
    /\ cancelled = Nil
    /\ cancelled' = [during |-> epc, calls |-> Len(outcomes), sleeps |-> Len(sleeps)]
    /\ UNCHANGED <<ereq, epc, attempt, delay, lastErr, outcomes, sleeps, printed,
                   svcErr, svcFound, response>>
    /\ UNCHANGED <<qvars, bvars, cvars, fvars, rvars>>

\* the handlers' treatment of the service's result
ListResponse(err) ==
    IF err # Nil
    THEN IF IsInternalError(err)
         THEN sendErrorResponse(503, "SERVICE_UNAVAILABLE", <<>>, "retry_after")
         ELSE sendErrorResponse(500, "DATABASE_ERROR", <<>>, "none")
    ELSE OkResponse

SingleResponse(err, found) ==
    IF err # Nil
    THEN sendErrorResponse(500, "DATABASE_ERROR", <<"Failed", "to", "retrieve", "transaction">> \o err, "none")
    ELSE IF ~found
         THEN sendErrorResponse(404, "TRANSACTION_NOT_FOUND",
                                <<"Transaction", "with", "ID", "tx1", "not", "found">>, "none")
         ELSE OkResponse

SearchResponse(err) ==
    IF err # Nil
    THEN sendErrorResponse(500, "DATABASE_ERROR", <<"Failed", "to", "search", "transactions">> \o err, "none")
    ELSE OkResponse

SummaryResponse(err) ==
    IF err # Nil
    THEN IF IsInternalError(err)
         THEN sendErrorResponse(503, "SERVICE_UNAVAILABLE", <<>>, "none")
         ELSE sendErrorResponse(500, "DATABASE_ERROR", <<>>, "none")
    ELSE OkResponse

Respond ==
    /\ epc = "respond"
    /\ response' = CASE ereq.endpoint = "list"    -> ListResponse(svcErr)
                     [] ereq.endpoint = "single"  -> SingleResponse(svcErr, svcFound)
                     [] ereq.endpoint = "search"  -> SearchResponse(svcErr)
                     [] ereq.endpoint = "summary" -> SummaryResponse(svcErr)
    /\ epc' = "done"
    /\ UNCHANGED <<ereq, attempt, delay, lastErr, outcomes, sleeps, printed,
                   svcErr, svcFound>>
    /\ UNCHANGED cancelled
    /\ UNCHANGED <<qvars, bvars, cvars, fvars, rvars>>

NextError ==
    \/ ListServiceStart
    \/ RetryInvoke
    \/ RetrySleep
    \/ DirectService
    \/ Respond
    \/ Cancel

SpecError == InitError /\ [][NextError]_vars

(***************************************************************************)
(* The catalogue: field mappings and PAN formats.                          *)
(***************************************************************************)
DefaultPageSize == 100
MaxPageSize     == 10000
MinPageSize     == 1

FieldMappings ==
    [ tx_log_id         |-> "p.payment_tx_log_id",
      tx_log_type       |-> "CASE WHEN p.payment_tx_type_id = 0 THEN 'payment' WHEN p.payment_tx_type_id = 1 THEN 'reversal' WHEN p.payment_tx_type_id = 2 THEN 'void' WHEN p.payment_tx_type_id = 3 THEN 'refund' WHEN p.payment_tx_type_id = 9 THEN 'mm purchase' WHEN p.payment_tx_type_id = 10 THEN 'mm refund' ELSE 'unknown' END",
      tx_date_time      |-> "p.updated_at",
      amount            |-> "p.amount",
      merchant_id       |-> "m.merchant_id",
      merchant_name     |-> "m.name",
      device_id         |-> "p.device_id",
      response_code     |-> "p.result_code",
      auth_code         |-> "p.auth_code",
      rrn               |-> "p.rrn",
      pan               |-> "pan",
      reversed          |-> "CASE WHEN p.reversed_tx_log_id IS NOT NULL THEN true ELSE false END",
      settlement_status |-> "COALESCE(p.settlement_status, 'pending')",
      stan              |-> "p.stan",
      user_ref          |-> "p.meta->>'reference'",
      meta              |-> "p.meta",
      settlement_date   |-> "p.settlement_date",
      card_type         |-> "p.card_type" ]

PANFormats ==
    [ bin_id_and_pan_id |-> "CONCAT(SUBSTRING(p.bin_id,1,4),' ',SUBSTRING(p.bin_id,5,2),'** **** ',p.pan_id)",
      pan_id_only       |-> "CONCAT('***** ',p.pan_id)" ]

DefaultFields ==
    <<"tx_log_id", "tx_log_type", "tx_date_time", "amount",
      "merchant_name", "response_code", "rrn", "pan">>

\* ValidateFields: the mapped names and four additional ones
validFields == DOMAIN FieldMappings \cup {"created_at", "updated_at", "description", "currency_info"}

ValidateFields(fields) == \A i \in 1..Len(fields) : fields[i] \in validFields

\* ParseSort on the "field:direction" parts of the sort parameter: an empty
\* parameter sorts by tx_date_time descending; a direction other than asc/desc
\* or a field outside the mappings is refused
ParseSort(parts) ==
    IF parts = <<>>
    THEN [ok |-> TRUE, sort |-> <<[Field |-> "tx_date_time", Direction |-> "desc"]>>]
    ELSE IF \A i \in 1..Len(parts) :
                /\ ToLowerWord(parts[i].Direction) \in {"asc", "desc"}
                /\ parts[i].Field \in DOMAIN FieldMappings
         THEN [ok |-> TRUE,
               sort |-> [i \in 1..Len(parts) |->
                            [Field |-> parts[i].Field,
                             Direction |-> ToLowerWord(parts[i].Direction)]]]
         ELSE [ok |-> FALSE, sort |-> <<>>]

\* the service's defaults for page and limit
ClampPage(page) == IF page < 1 THEN 1 ELSE page

\* the lower default without the upper clamp
ClampLimitUnbounded(limit) == IF limit < MinPageSize THEN DefaultPageSize ELSE limit

ClampLimit(limit) ==
    IF limit < MinPageSize THEN DefaultPageSize
    ELSE IF limit > MaxPageSize THEN MaxPageSize
    ELSE limit

(***************************************************************************)
(* The store: payment_tx_log rows and the merchants they join to.  A NULL  *)
(* column is the empty sequence, a value v is <<v>>.                        *)
(***************************************************************************)
\* a time.Time in UTC: days since 2024-01-01, seconds of the day, nanoseconds
Instant(day, sec, nano) == [day |-> day, sec |-> sec, nano |-> nano]

\* time.Time.Before or Equal
TimeLE(a, b) ==
    \/ a.day < b.day
    \/ a.day = b.day /\ a.sec < b.sec
    \/ a.day = b.day /\ a.sec = b.sec /\ a.nano <= b.nano

\* time.Time.Add of a duration of dsec seconds and dnano nanoseconds
TimeAdd(t, dsec, dnano) ==
    LET n == t.nano + dnano
        s == t.sec + dsec + (n \div 1000000000)
    IN  Instant(t.day + (s \div 86400), s % 86400, n % 1000000000)

Merchants ==
    { [merchant_id |-> "m1", name |-> "Shop One",   provisioner_id |-> <<"p1">>],
      [merchant_id |-> "m2", name |-> "Shop Two",   provisioner_id |-> <<"p1">>],
      [merchant_id |-> "m3", name |-> "Shop Three", provisioner_id |-> <<>>],
      [merchant_id |-> "p1", name |-> "Provisioner", provisioner_id |-> <<>>] }

PaymentTxLog ==
    { [payment_tx_log_id |-> 1, merchant_id |-> "m1", amount |-> 10, result_code |-> "00",
       payment_tx_type_id |-> "0", currency_code |-> "ZAR", updated_at |-> Instant(0, 0, 0)],
      [payment_tx_log_id |-> 2, merchant_id |-> "m1", amount |-> 20, result_code |-> "05",
       payment_tx_type_id |-> "3", currency_code |-> "ZAR", updated_at |-> Instant(365, 86399, 999999999)],
      [payment_tx_log_id |-> 3, merchant_id |-> "m2", amount |-> 30, result_code |-> "00",
       payment_tx_type_id |-> "0", currency_code |-> "USD", updated_at |-> Instant(366, 0, 0)],
      [payment_tx_log_id |-> 4, merchant_id |-> "m3", amount |-> 40, result_code |-> "00",
       payment_tx_type_id |-> "0", currency_code |-> "ZAR", updated_at |-> Instant(365, 43200, 0)],
      [payment_tx_log_id |-> 5, merchant_id |-> "gone", amount |-> 50, result_code |-> "00",
       payment_tx_type_id |-> "0", currency_code |-> "ZAR", updated_at |-> Instant(0 - 1, 86399, 999999999)] }

\* LEFT JOIN merchants m ON p.merchant_id = m.merchant_id
JoinedRows ==
    { [p |-> r,
       m |-> IF \E mr \in Merchants : mr.merchant_id = r.merchant_id
             THEN <<CHOOSE mr \in Merchants : mr.merchant_id = r.merchant_id>>
             ELSE <<>>] : r \in PaymentTxLog }

(***************************************************************************)
(* Statements.  SQL text is a sequence of fragments: a string literal of   *)
(* the code, a catalogue fragment, or a value that fmt.Sprintf put there.  *)
(* A predicate is its SQL text with ? placeholders and its bound           *)
(* parameters.                                                             *)
(***************************************************************************)
Pred(sql, args) == [sql |-> sql, args |-> args]

RECURSIVE Join(_, _)
\* strings.Join on fragment sequences
Join(parts, sep) ==
    IF parts = <<>> THEN <<>>
    ELSE IF Len(parts) = 1 THEN parts[1]
    ELSE parts[1] \o <<sep>> \o Join(Tail(parts), sep)

\* buildFieldSelection: the fragments one requested field adds to SELECT
FieldSelection(field, timezone, panFormatSQL) ==
    CASE field = "payment_tx_log_id" -> <<"p.payment_tx_log_id">>
      [] field = "amount"        -> <<"p.amount">>
      [] field = "merchant_name" -> <<"m.name as merchant_name">>
      [] field = "response_code" -> <<"p.result_code as response_code">>
      [] field = "pan"           -> <<panFormatSQL, " as pan">>
      [] field = "tx_date_time"  ->
            <<"TO_CHAR(TIMEZONE('", timezone,
              "', p.updated_at), 'YYYY-MM-DD\"T\"HH24:MI:SS.MS\"Z\"') as tx_date_time">>
      [] field = "tx_log_type"   -> <<FieldMappings["tx_log_type"], " as tx_log_type">>
      [] field = "currency_info" ->
            <<"p.currency_code", ", ", "c.curr_short as currency_name", ", ", "c.curr_delim">>
      [] OTHER ->
            IF field \in DOMAIN FieldMappings
            THEN <<FieldMappings[field], " as ", field>>
            ELSE <<"p.", field>>

buildFieldSelection(fields, timezone, panFormat) ==
    LET panFormatSQL == IF panFormat \in DOMAIN PANFormats
                        THEN PANFormats[panFormat]
                        ELSE PANFormats["bin_id_and_pan_id"]
    IN  Join([i \in 1..Len(fields) |-> FieldSelection(fields[i], timezone, panFormatSQL)], ", ")

FromJoins ==
    <<"payment_tx_log p",
      "LEFT JOIN merchants m ON p.merchant_id = m.merchant_id",
      "LEFT JOIN currency c ON p.currency_code = c.curr_code">>

\* a statement before any Where, Group, Order, Limit or Offset
Statement(kind, select, from) ==
    [ kind |-> kind, select |-> select, from |-> from, where |-> <<>>,
      group |-> <<>>, order |-> <<>>, limit |-> 0, offset |-> 0 ]

buildBaseQuery(kind, fields, timezone, panFormat) ==
    IF Len(fields) = 0
    THEN Statement(kind,
             <<"DISTINCT ON (p.payment_tx_log_id) p.*, m.name as merchant_name, c.curr_short as currency_name, c.curr_delim">>,
             FromJoins)
    ELSE Statement(kind,
             <<"DISTINCT ON (p.payment_tx_log_id) ">> \o buildFieldSelection(fields, timezone, panFormat),
             FromJoins)

buildCountQuery == Statement("count", <<"count(*)">>, FromJoins)

\* query.Where(sql, args...): one more condition, joined to the others by AND
Where(stmt, sql, args) == [stmt EXCEPT !.where = Append(@, Pred(sql, args))]

\* Where("m.merchant_id = ? OR m.provisioner_id = ?", merchantID, merchantID)
Scoped(stmt, merchantID) ==
    Where(stmt, "m.merchant_id = ? OR m.provisioner_id = ?", <<merchantID, merchantID>>)

\* applyFilters: the tx-log-type name as the numeric type id ("" when unknown)
TypeID(name) ==
    CASE name = "payment"     -> "0"
      [] name = "reversal"    -> "1"
      [] name = "void"        -> "2"
      [] name = "refund"      -> "3"
      [] name = "mm purchase" -> "9"
      [] name = "mm refund"   -> "10"
      [] OTHER                -> ""

applyFilters(stmt, filter) ==
    LET q1 == IF filter.ResponseCode # <<>>
              THEN Where(stmt, "p.result_code = ?", filter.ResponseCode) ELSE stmt
        q2 == IF filter.DateTimeFrom # <<>>
              THEN Where(q1, "p.updated_at >= ?", filter.DateTimeFrom) ELSE q1
        q3 == IF filter.DateTimeTo # <<>>
              THEN Where(q2, "p.updated_at <= ?", filter.DateTimeTo) ELSE q2
        q4 == IF filter.CurrencyCode # <<>>
              THEN Where(q3, "p.currency_code = ?", filter.CurrencyCode) ELSE q3
        q5 == IF filter.AmountMin # <<>>
              THEN Where(q4, "p.amount >= ?", filter.AmountMin) ELSE q4
        q6 == IF filter.AmountMax # <<>>
              THEN Where(q5, "p.amount <= ?", filter.AmountMax) ELSE q5
        q7 == IF filter.TxLogType # <<>> /\ TypeID(filter.TxLogType[1]) # ""
              THEN Where(q6, "p.payment_tx_type_id = ?", <<TypeID(filter.TxLogType[1])>>) ELSE q6
    IN  q7

\* applySortingWithDistinct: ORDER BY p.payment_tx_log_id, then the sort keys
SortKey(s) ==
    LET direction == IF ToLowerWord(s.Direction) = "desc" THEN "DESC" ELSE "ASC"
        sqlField  == IF s.Field \in DOMAIN FieldMappings
                     THEN <<FieldMappings[s.Field]>>
                     ELSE <<"p.", s.Field>>
    IN  sqlField \o <<" ", direction>>

\* the sort keys in front of the DISTINCT column
applySortingKeysFirst(stmt, sort) ==
    LET orderBy == [i \in 1..Len(sort) |-> SortKey(sort[i])] \o << <<"p.payment_tx_log_id">> >>
    IN  [stmt EXCEPT !.order = Join(orderBy, ", ")]

applySortingWithDistinct(stmt, sort) ==
    LET orderBy == IF Len(sort) = 0
                   THEN << <<"p.payment_tx_log_id">>, <<"p.updated_at DESC">> >>
                   ELSE << <<"p.payment_tx_log_id">> >> \o [i \in 1..Len(sort) |-> SortKey(sort[i])]
    IN  [stmt EXCEPT !.order = Join(orderBy, ", ")]

\* transactionRepository.GetTransactions: the count statement, then the page
GetTransactionsStatements(merchantID, filter, fields, sort, page, limit, timezone, panFormat) ==
    LET query      == applySortingWithDistinct(
                          applyFilters(Scoped(buildBaseQuery("find", fields, timezone, panFormat),
                                              merchantID), filter), sort)
        countQuery == applyFilters(Scoped(buildCountQuery, merchantID), filter)
        offset     == (page - 1) * limit
    IN  <<countQuery, [query EXCEPT !.limit = limit, !.offset = offset]>>

\* transactionRepository.GetTransactionByID
GetTransactionByIDStatements(merchantID, transactionID, fields, timezone, panFormat) ==
    << Where(Scoped(buildBaseQuery("first", fields, timezone, panFormat), merchantID),
             "p.payment_tx_log_id = ?", <<transactionID>>) >>

\* transactionRepository.GetMerchantSummary
GetMerchantSummaryStatements(merchantID, filter) ==
    LET base == Statement("take",
                    <<"m.merchant_id, m.name as merchant_name, COUNT(*) as total_transactions, SUM(CASE WHEN p.result_code IN ('00', '10') THEN 1 ELSE 0 END) as successful_transactions, SUM(COALESCE(p.amount, 0)) as total_amount, MIN(p.updated_at) as min_date, MAX(p.updated_at) as max_date">>,
                    <<"payment_tx_log p", "LEFT JOIN merchants m ON p.merchant_id = m.merchant_id">>)
        grouped == [Scoped(base, merchantID) EXCEPT !.group = <<"m.merchant_id, m.name">>]
    IN  << applyFilters(grouped, filter) >>

(***************************************************************************)
(* Execution of a statement on the store.                                  *)
(***************************************************************************)
\* one condition on one joined row; a comparison with NULL is not true
Eval(pred, row) ==
    CASE pred.sql = "m.merchant_id = ? OR m.provisioner_id = ?" ->
             /\ row.m # <<>>
             /\ \/ row.m[1].merchant_id = pred.args[1]
                \/ row.m[1].provisioner_id = <<pred.args[2]>>
      [] pred.sql = "p.payment_tx_log_id = ?"  -> row.p.payment_tx_log_id = pred.args[1]
      [] pred.sql = "p.result_code = ?"        -> row.p.result_code = pred.args[1]
      [] pred.sql = "p.updated_at >= ?"        -> TimeLE(pred.args[1], row.p.updated_at)
      [] pred.sql = "p.updated_at <= ?"        -> TimeLE(row.p.updated_at, pred.args[1])
      [] pred.sql = "p.currency_code = ?"      -> row.p.currency_code = pred.args[1]
      [] pred.sql = "p.amount >= ?"            -> row.p.amount >= pred.args[1]
      [] pred.sql = "p.amount <= ?"            -> row.p.amount <= pred.args[1]
      [] pred.sql = "p.payment_tx_type_id = ?" -> row.p.payment_tx_type_id = pred.args[1]

\* the conditions of a statement are joined by AND, a condition with OR in
\* parentheses
Matching(stmt) ==
    { row \in JoinedRows : \A i \in 1..Len(stmt.where) : Eval(stmt.where[i], row) }

RECURSIVE OrderedByID(_)
\* ORDER BY p.payment_tx_log_id: the ids are distinct, later keys never decide
OrderedByID(rows) ==
    IF rows = {} THEN <<>>
    ELSE LET first == CHOOSE r \in rows :
                          \A o \in rows : r.p.payment_tx_log_id <= o.p.payment_tx_log_id
         IN  <<first>> \o OrderedByID(rows \ {first})

\* LIMIT and OFFSET on the ordered rows: the page, in the order of the store
PageSeq(stmt) ==
    LET ordered == OrderedByID(Matching(stmt))
        last    == IF stmt.offset + stmt.limit < Len(ordered)
                   THEN stmt.offset + stmt.limit ELSE Len(ordered)
    IN  SubSeq(ordered, stmt.offset + 1, last)

\* the rows of the page
PageRows(stmt) == { PageSeq(stmt)[i] : i \in 1..Len(PageSeq(stmt)) }

\* First: the first row in primary-key order, if any
FirstRows(stmt) ==
    LET ordered == OrderedByID(Matching(stmt))
    IN  IF ordered = <<>> THEN {} ELSE {ordered[1]}

\* Take on a grouped statement: one group, whichever the store yields first
TakeGroups(stmt) ==
    IF Matching(stmt) = {} THEN {{}}
    ELSE { {row \in Matching(stmt) : row.m = g} : g \in {row.m : row \in Matching(stmt)} }

\* A timezone parameter that holds a quote.  buildFieldSelection writes it
\* between TIMEZONE(' and ', so the quote ends the literal the code opened and
\* the rest is read as select-list SQL, here a scalar subquery on payment_tx_log.
SubqueryTimezone ==
    "UTC', now()), 'YYYY') as tx_date_time, (SELECT MAX(rrn) FROM payment_tx_log) as rrn, TO_CHAR(TIMEZONE('UTC"

\* the rows a scalar subquery of the SELECT list is computed from: the rows of
\* its own FROM, which the WHERE of the enclosing statement does not restrict
SubqueryRows(stmt) ==
    IF \E i \in 1..Len(stmt.select) : stmt.select[i] = SubqueryTimezone
    THEN JoinedRows
    ELSE {}

\* the rows behind the columns of the result: the selected rows and, when there
\* is one to project, the rows read by the subqueries of its SELECT list
Projected(stmt, rows) ==
    IF rows = {} THEN {} ELSE rows \cup SubqueryRows(stmt)

(***************************************************************************)
(* SpecQuery: requests, handlers, repository.                              *)
(***************************************************************************)
MaxPage  == 2
MaxLimit == 2
MaxTxID  == 6

Opt(S) == {<<>>} \cup {<<v>> : v \in S}

NoFilter ==
    [ ResponseCode |-> <<>>, DateTimeFrom |-> <<>>, DateTimeTo |-> <<>>, CurrencyCode |-> <<>>,
      AmountMin |-> <<>>, AmountMax |-> <<>>, TxLogType |-> <<>> ]

\* the filters ParseAdvancedFilter hands to the list and summary handlers
QFilters ==
    [ ResponseCode : Opt({"00"}), DateTimeFrom : {<<>>}, DateTimeTo : {<<>>},
      CurrencyCode : {<<>>}, AmountMin : Opt({15}), AmountMax : {<<>>},
      TxLogType : Opt({"payment", "bogus"}) ]

\* the filters convertSearchToFilter makes of a search body
QSearchFilters ==
    [ ResponseCode : Opt({"00"}), DateTimeFrom : {<<>>}, DateTimeTo : {<<>>},
      CurrencyCode : {<<>>}, AmountMin : {<<>>}, AmountMax : Opt({35}),
      TxLogType : {<<>>} ]

Callers == {"m1", "p1"}

QFieldLists ==
    { <<>>, <<"tx_date_time", "pan">>, <<"created_at", "currency_info">>,
      <<"password_hash">> }

QSorts ==
    { <<>>,
      <<[Field |-> "amount", Direction |-> "DESC"]>>,
      <<[Field |-> "tx_date_time", Direction |-> "desc"]>>,
      <<[Field |-> "amount; DROP TABLE merchants", Direction |-> "asc"]>> }

QTimezones == {"UTC", SubqueryTimezone}

\* the limit of a request: absent, a small number, or one past the largest allowed
QLimits == Opt((0..MaxLimit) \cup {MaxPageSize + 1})

\* c.DefaultQuery(key, defaultValue) followed by strconv.Atoi
DefaultQuery(param, defaultValue) == IF param = <<>> THEN defaultValue ELSE param[1]

\* an int field of a bound JSON body: the zero value when the key is absent
BodyInt(param) == IF param = <<>> THEN 0 ELSE param[1]

QPanFormats == {"pan_id_only", "' || p.pan_id || '"}

QRequest(endpoint, caller, pathID, txid, filter, fields, sort, page, limit, timezone, panFormat) ==
    [ endpoint |-> endpoint, caller |-> caller, pathID |-> pathID, txid |-> txid,
      filter |-> filter, fields |-> fields, sort |-> sort, page |-> page, limit |-> limit,
      timezone |-> timezone, panFormat |-> panFormat ]

QRequests ==
    { QRequest("list", c, c, 0, f, fl, s, p, l, tz, pf) :
        c \in Callers, f \in QFilters, fl \in QFieldLists, s \in QSorts,
        p \in 0..MaxPage, l \in QLimits, tz \in QTimezones, pf \in QPanFormats }
    \cup
    { QRequest("search", c, c, 0, f, fl, s, p, l, tz, pf) :
        c \in Callers, f \in QSearchFilters, fl \in QFieldLists, s \in QSorts,
        p \in 0..MaxPage, l \in QLimits, tz \in QTimezones, pf \in QPanFormats }
    \cup
    { QRequest("single", c, c, id, NoFilter, fl, <<>>, 1, <<1>>, tz, pf) :
        c \in Callers, id \in 1..MaxTxID, fl \in QFieldLists,
        tz \in QTimezones, pf \in QPanFormats }
    \cup
    { QRequest("summary", c, path, 0, f, <<>>, <<>>, 1, <<1>>, "UTC", "pan_id_only") :
        c \in Callers, path \in Callers, f \in QFilters }

InitQuery ==
    /\ qreq \in QRequests
    /\ qpc = "start"
    /\ stmts = <<>>
    /\ contributing = {}
    /\ qresp = 0
    /\ IdleError
    /\ IdleBackend
    /\ IdleCache
    /\ IdleFilter
    /\ IdleRow

\* the request ends without a statement
QReject(status) ==
    /\ qresp' = status
    /\ qpc' = "done"
    /\ UNCHANGED <<qreq, stmts, contributing>>

\* the repository composed its statements
QCompose(statements) ==
    /\ stmts' = statements
    /\ qpc' = "exec"
    /\ UNCHANGED <<qreq, contributing, qresp>>

\* GET /transactions: handler, service and repository up to the execution
QList ==
    /\ qpc = "start"
    /\ qreq.endpoint = "list"
    /\ LET limit == DefaultQuery(qreq.limit, 100)
       IN  IF qreq.page < 1 \/ limit < 1 \/ limit > MaxPageSize
           THEN QReject(400)
           ELSE IF ~ParseSort(qreq.sort).ok
           THEN QReject(400)
           ELSE IF Len(qreq.fields) > 0 /\ ~ValidateFields(qreq.fields)
           THEN QReject(500)
           ELSE QCompose(GetTransactionsStatements(qreq.caller, qreq.filter, qreq.fields,
                             ParseSort(qreq.sort).sort, ClampPage(qreq.page), ClampLimit(limit),
                             qreq.timezone, qreq.panFormat))
    /\ UNCHANGED <<evars, bvars, cvars, fvars, rvars>>

\* POST /transactions/search: the sort of the body reaches the repository as it is
QSearch ==
    /\ qpc = "start"
    /\ qreq.endpoint = "search"
    /\ IF ~ValidateFields(qreq.fields)
       THEN QReject(500)
       ELSE QCompose(GetTransactionsStatements(qreq.caller, qreq.filter, qreq.fields,
                         qreq.sort, ClampPage(qreq.page), ClampLimit(BodyInt(qreq.limit)),
                         qreq.timezone, qreq.panFormat))
    /\ UNCHANGED <<evars, bvars, cvars, fvars, rvars>>

\* GET /transactions/:id
QSingle ==
    /\ qpc = "start"
    /\ qreq.endpoint = "single"
    /\ LET fields == IF Len(qreq.fields) = 0 THEN DefaultFields ELSE qreq.fields
       IN  IF ~ValidateFields(fields)
           THEN QReject(500)
           ELSE QCompose(GetTransactionByIDStatements(qreq.caller, qreq.txid, fields,
                             qreq.timezone, qreq.panFormat))
    /\ UNCHANGED <<evars, bvars, cvars, fvars, rvars>>

\* GET /merchants/:merchant_id/summary (no cache coordinator in this specification)
QSummary ==
    /\ qpc = "start"
    /\ qreq.endpoint = "summary"
    /\ IF qreq.pathID # qreq.caller
       THEN QReject(403)
       ELSE QCompose(GetMerchantSummaryStatements(qreq.caller, qreq.filter))
    /\ UNCHANGED <<evars, bvars, cvars, fvars, rvars>>

\* the statements run on the store and the response is built from their rows
QExecute ==
    /\ qpc = "exec"
    /\ IF Len(stmts) = 2
       THEN contributing' = Matching(stmts[1]) \cup Projected(stmts[2], PageRows(stmts[2]))
       ELSE IF stmts[1].kind = "first"
       THEN contributing' = Projected(stmts[1], FirstRows(stmts[1]))
       ELSE contributing' \in TakeGroups(stmts[1])
    /\ qresp' = IF stmts[1].kind = "first" /\ contributing' = {} THEN 404 ELSE 200
    /\ qpc' = "done"
    /\ UNCHANGED <<qreq, stmts>>
    /\ UNCHANGED <<evars, bvars, cvars, fvars, rvars>>

NextQuery ==
    \/ QList
    \/ QSearch
    \/ QSingle
    \/ QSummary
    \/ QExecute

SpecQuery == InitQuery /\ [][NextQuery]_vars

(***************************************************************************)
(* SpecBackend: handlers running in parallel on the one repository that    *)
(* SetupRoutes creates.  A legacy handler selects the legacy store on the  *)
(* repository before its query; a handler of the v2 family never selects.  *)
(***************************************************************************)
NumRequests == 3

BRequests == 1..NumRequests

\* the statements a v2 handler runs: each takes its handle from getDB
MaxStatements == 2

\* NewTransactionRepository: useMysql starts false
NewTransactionRepository == FALSE

\* SetUseMysql: the flag is a field of the repository, shared by its callers
SetUseMysql(flag, useLegacy) == useLegacy

\* getDB: the legacy handle when the flag is set and the handle exists,
\* else the primary handle when it exists, else r.mysqlDB whatever it is: the
\* legacy handle, or the nil pointer ("none") when there is no legacy handle
getDB(flag, handles) ==
    IF flag /\ handles.mysql THEN "mysql"
    ELSE IF handles.postgres THEN "postgres"
    ELSE IF handles.mysql THEN "mysql" ELSE "none"

InitBackend ==
    /\ useMysql = NewTransactionRepository
    /\ bhandles \in [postgres : BOOLEAN, mysql : BOOLEAN]
    /\ bkind \in [BRequests -> {"legacy", "v2"}]
    /\ bpc = [r \in BRequests |-> "start"]
    /\ bstore = [r \in BRequests |-> <<>>]
    /\ IdleError
    /\ IdleQuery
    /\ IdleCache
    /\ IdleFilter
    /\ IdleRow

\* a legacy handler: select(true) for this request
LegacySelect(r) ==
    /\ bkind[r] = "legacy"
    /\ bpc[r] = "start"
    /\ useMysql' = SetUseMysql(useMysql, TRUE)
    /\ bpc' = [bpc EXCEPT ![r] = "query"]
    /\ UNCHANGED <<bhandles, bkind, bstore>>
    /\ UNCHANGED <<evars, qvars, cvars, fvars, rvars>>

\* GetTransactionLookup / SearchTransactionDetails: r.getDB().Raw(...)
LegacyQuery(r) ==
    /\ bkind[r] = "legacy"
    /\ bpc[r] = "query"
    /\ bstore' = [bstore EXCEPT ![r] = Append(@, getDB(useMysql, bhandles))]
    /\ bpc' = [bpc EXCEPT ![r] = "finish"]
    /\ UNCHANGED <<useMysql, bhandles, bkind>>
    /\ UNCHANGED <<evars, qvars, cvars, fvars, rvars>>

\* the legacy handler returns, with or without selecting the primary again
LegacyFinish(r) ==
    /\ bkind[r] = "legacy"
    /\ bpc[r] = "finish"
    /\ \E reset \in BOOLEAN :
          useMysql' = IF reset THEN SetUseMysql(useMysql, FALSE) ELSE useMysql
    /\ bpc' = [bpc EXCEPT ![r] = "done"]
    /\ UNCHANGED <<bhandles, bkind, bstore>>
    /\ UNCHANGED <<evars, qvars, cvars, fvars, rvars>>

\* a v2 handler: one statement of GetTransactions, GetTransactionByID or
\* GetMerchantSummary, built on r.getDB()
V2Query(r) ==
    /\ bkind[r] = "v2"
    /\ bpc[r] = "start"
    /\ Len(bstore[r]) < MaxStatements
    /\ bstore' = [bstore EXCEPT ![r] = Append(@, getDB(useMysql, bhandles))]
    /\ UNCHANGED <<useMysql, bhandles, bkind, bpc>>
    /\ UNCHANGED <<evars, qvars, cvars, fvars, rvars>>

\* the v2 handler returns after its last statement
V2Finish(r) ==
    /\ bkind[r] = "v2"
    /\ bpc[r] = "start"
    /\ Len(bstore[r]) >= 1
    /\ bpc' = [bpc EXCEPT ![r] = "done"]
    /\ UNCHANGED <<useMysql, bhandles, bkind, bstore>>
    /\ UNCHANGED <<evars, qvars, cvars, fvars, rvars>>

NextBackend ==
    \/ \E r \in BRequests : LegacySelect(r)
    \/ \E r \in BRequests : LegacyQuery(r)
    \/ \E r \in BRequests : LegacyFinish(r)
    \/ \E r \in BRequests : V2Query(r)
    \/ \E r \in BRequests : V2Finish(r)

SpecBackend == InitBackend /\ [][NextBackend]_vars

(***************************************************************************)
(* The cache: keys, the Redis keyspace, the summary the store computes.    *)
(* An md5 digest is modelled as injective: a key is the sequence of parts  *)
(* its digest was taken of, and two keys are equal when their parts are.   *)
(***************************************************************************)
RedisTTL == 1800

\* generateMerchantSummaryCacheKey: "summary", the merchant, then the datetime
\* and amount bounds that are present
generateMerchantSummaryCacheKey(merchantID, filter) ==
    <<"summary", merchantID>>
        \o (IF filter.DateTimeFrom # <<>> THEN <<"from:", ToString(filter.DateTimeFrom[1])>> ELSE <<>>)
        \o (IF filter.DateTimeTo # <<>> THEN <<"to:", ToString(filter.DateTimeTo[1])>> ELSE <<>>)
        \o (IF filter.AmountMin # <<>> THEN <<"min_amount:", ToString(filter.AmountMin[1])>> ELSE <<>>)
        \o (IF filter.AmountMax # <<>> THEN <<"max_amount:", ToString(filter.AmountMax[1])>> ELSE <<>>)

\* cacheService.generateCacheKey: prefix and digest of the parts
generateCacheKey(parts) == [ns |-> "aken:reporting:", parts |-> parts]

\* middleware generateCacheKey: method, path, raw query, Authorization header
middlewareCacheKey(req) ==
    [ ns |-> "aken:reporting:api:",
      parts |-> <<req.method, req.route, req.pathID, req.raw>>
                    \o (IF req.caller # "" THEN <<"Authorization:", req.caller>> ELSE <<>>) ]

\* client.Get: the value under a key (<<>> on redis.Nil)
CacheGet(c, key) ==
    IF \E e \in c : e.key = key
    THEN (CHOOSE e \in c : e.key = key).val
    ELSE <<>>

\* client.Set with a TTL: the value replaces what the key held
CacheSet(c, key, val, ttl) ==
    {e \in c : e.key # key} \cup {[key |-> key, val |-> val, ttl |-> ttl]}

\* client.Del
Delete(c, key) == {e \in c : e.key # key}

\* SCAN with MATCH digest*: a digest has no structure, the pattern matches the
\* key with that digest and no other
PatternMatches(pattern, key) == key = pattern

DeletePattern(c, pattern) == {e \in c : ~PatternMatches(pattern, e.key)}

InvalidateTransactionCache(c, merchantID) ==
    DeletePattern(c, generateCacheKey(<<"transactions", merchantID>>))

InvalidateMerchantCache(c, merchantID) ==
    Delete(c, generateCacheKey(<<"merchant", merchantID>>))

shouldInvalidateCache(method) == method \in {"POST", "PUT", "DELETE", "PATCH"}

RECURSIVE SumAmount(_)
\* SUM(COALESCE(p.amount, 0))
SumAmount(rows) ==
    IF rows = {} THEN 0
    ELSE LET r == CHOOSE x \in rows : TRUE
         IN  r.p.amount + SumAmount(rows \ {r})

\* float64(a) / float64(b), kept as the quotient of its two operands
Quotient(a, b) == [num |-> a, den |-> b]

\* repository GetMerchantSummary: AverageAmount, left at zero without transactions
AverageAmount(totalAmount, totalTxns) ==
    IF totalTxns > 0 THEN Quotient(totalAmount, totalTxns) ELSE Quotient(0, 1)

\* the share of successful transactions, not multiplied by 100
SuccessShare(successfulTxns, totalTxns) ==
    IF totalTxns > 0 THEN Quotient(successfulTxns, totalTxns) ELSE Quotient(0, 1)

\* repository GetMerchantSummary: SuccessRate, left at zero without transactions
SuccessRate(successfulTxns, totalTxns) ==
    IF totalTxns > 0 THEN Quotient(successfulTxns * 100, totalTxns) ELSE Quotient(0, 1)

\* repository GetMerchantSummary: the summary of the group Take returned,
\* or the "Unknown" summary when no row matched
SummaryOf(merchantID, rows) ==
    IF rows = {}
    THEN [ MerchantID |-> merchantID, MerchantName |-> "Unknown", TotalTransactions |-> 0,
           SuccessfulTransactions |-> 0, FailedTransactions |-> 0, TotalAmount |-> 0,
           AverageAmount |-> Quotient(0, 1), SuccessRate |-> Quotient(0, 1) ]
    ELSE LET m == (CHOOSE r \in rows : TRUE).m[1]
             successful == Cardinality({r \in rows : r.p.result_code \in {"00", "10"}})
         IN  [ MerchantID |-> m.merchant_id, MerchantName |-> m.name,
               TotalTransactions |-> Cardinality(rows),
               SuccessfulTransactions |-> successful,
               FailedTransactions |-> Cardinality(rows) - successful,
               TotalAmount |-> SumAmount(rows),
               AverageAmount |-> AverageAmount(SumAmount(rows), Cardinality(rows)),
               SuccessRate |-> SuccessRate(successful, Cardinality(rows)) ]

\* the summaries the store can answer for a scope and a filter
StoreSummaries(merchantID, filter) ==
    { SummaryOf(merchantID, g) :
        g \in TakeGroups(GetMerchantSummaryStatements(merchantID, filter)[1]) }

(***************************************************************************)
(* SpecCache: requests served one after another through CacheMiddleware,   *)
(* CacheInvalidationMiddleware, the handler and the service.               *)
(***************************************************************************)
CRequest(method, route, caller, pathID, raw, filter) ==
    [ method |-> method, route |-> route, caller |-> caller, pathID |-> pathID,
      raw |-> raw, filter |-> filter ]

CRequests ==
    { CRequest("GET", "summary", "m1", "m1", "", NoFilter),
      CRequest("GET", "summary", "m1", "m1", "filter=response_code:eq:00",
               [NoFilter EXCEPT !.ResponseCode = <<"00">>]),
      CRequest("GET", "summary", "m1", "m1", "filter=amount:gte:15",
               [NoFilter EXCEPT !.AmountMin = <<15>>]),
      CRequest("GET", "summary", "m2", "m2", "", NoFilter),
      CRequest("GET", "summary", "m2", "m2", "filter=amount:gte:35",
               [NoFilter EXCEPT !.AmountMin = <<35>>]),
      CRequest("GET", "summary", "m1", "m2", "", NoFilter),
      CRequest("GET", "summary", "", "m1", "", NoFilter),
      CRequest("GET", "list", "m1", "m1", "", NoFilter),
      CRequest("GET", "list", "m3", "m3", "", NoFilter),
      CRequest("GET", "merchant_transactions", "m3", "m3", "", NoFilter),
      CRequest("POST", "search", "m1", "m1", "", NoFilter),
      CRequest("POST", "search", "m2", "m2", "", NoFilter) }

NoBody == <<>>

\* NewCacheService as main uses it: the no-op service when Redis is disabled, a
\* live client when the ping succeeds, and a nil interface when it fails
NewCacheService(enabled, pingOK) ==
    IF ~enabled THEN "noop" ELSE IF pingOK THEN "live" ELSE "nil"

\* config.IsRedisEnabled, read back from the coordinator NewCacheService built
IsRedisEnabled(c) == c # "noop"

\* "if cacheService == nil" in CacheMiddleware and CacheInvalidationMiddleware
MiddlewareSkips(c) == c = "nil"

\* a service that calls the coordinator without looking at it
ServiceNeverSkips(c) == FALSE

\* "if s.cacheService != nil" around both cache calls of service GetMerchantSummary
ServiceSkips(c) == c = "nil"

\* a method call on a nil interface panics; gin.Recovery answers 500 and the
\* rest of the chain does not run
Panic ==
    /\ cresp' = [status |-> 500, body |-> NoBody]
    /\ cevents' = Append(cevents, "panic")
    /\ cpc' = "done"

\* a transaction written to payment_tx_log while the service runs
LateRows ==
    { [p |-> [payment_tx_log_id |-> 9, merchant_id |-> "m3", amount |-> 60, result_code |-> "00",
              payment_tx_type_id |-> "0", currency_code |-> "ZAR", updated_at |-> Instant(400, 0, 0)],
       m |-> <<CHOOSE mr \in Merchants : mr.merchant_id = "m3">>] }

\* the ids a transaction route answers with: the rows of the caller's scope
\* that payment_tx_log holds when the statement runs
TxBody(req, late) ==
    LET stmt == Scoped(buildCountQuery, req.caller)
    IN  { row.p.payment_tx_log_id :
            row \in { r \in JoinedRows \cup late :
                        \A i \in 1..Len(stmt.where) : Eval(stmt.where[i], r) } }

\* what CStart folds into cmutated when a request has been answered
Answered ==
    IF cpc = "done" /\ creq.route = "summary" /\ cresp.status = 200
    THEN cmutated \ {creq.caller}
    ELSE cmutated

InitCache ==
    /\ \E enabled, pingOK \in BOOLEAN : coord = NewCacheService(enabled, pingOK)
    /\ cstore = {}
    /\ cauth = FALSE
    /\ cexpired = {}
    /\ cache = {}
    /\ creq = Nil
    /\ cpc = "idle"
    /\ cevents = <<>>
    /\ cresp = [status |-> 0, body |-> NoBody]
    /\ cmutated = {}
    /\ IdleError
    /\ IdleQuery
    /\ IdleBackend
    /\ IdleFilter
    /\ IdleRow

\* a request arrives once the one before it has been answered
CStart ==
    /\ cpc \in {"idle", "done"}
    /\ creq' \in CRequests
    /\ cmutated' = Answered
    /\ cevents' = <<>>
    /\ cresp' = [status |-> 0, body |-> NoBody]
    /\ cpc' = "mw"
    /\ cauth' = FALSE
    /\ UNCHANGED cache
    /\ UNCHANGED <<coord, cstore, cexpired>>
    /\ UNCHANGED <<evars, qvars, bvars, fvars, rvars>>

\* the routes whose path holds "/transactions"
TransactionRoutes == {"list", "single", "search", "merchant_transactions"}

\* a middleware that looks every GET request up
MiddlewareCachesAllGets(req) == req.method = "GET"

\* CacheMiddleware goes on to the cache for a GET whose path does not hold
\* "/transactions"
MiddlewareCaches(req) == req.method = "GET" /\ req.route \notin TransactionRoutes

\* the early returns of CacheMiddleware, in the order of the code
MiddlewareLooksUp(c, req) ==
    /\ ~MiddlewareSkips(c)
    /\ IsRedisEnabled(c)
    /\ MiddlewareCaches(req)

\* CacheMiddleware before c.Next(): a cached response is served and the chain aborted
CCacheMiddleware ==
    /\ cpc = "mw"
    /\ IF ~MiddlewareLooksUp(coord, creq)
       THEN /\ cpc' = "auth"
            /\ UNCHANGED <<cevents, cresp>>
       ELSE IF coord = "nil"
       THEN Panic
       ELSE IF CacheGet(cache, middlewareCacheKey(creq)) # <<>>
       THEN /\ cresp' = [status |-> 200, body |-> CacheGet(cache, middlewareCacheKey(creq))]
            /\ cevents' = Append(cevents, "api_read_hit")
            /\ cpc' = "done"
       ELSE /\ cevents' = Append(cevents, "api_read_miss")
            /\ cpc' = "auth"
            /\ UNCHANGED cresp
    /\ UNCHANGED <<cache, creq, cmutated>>
    /\ UNCHANGED <<coord, cstore, cexpired>>
    /\ UNCHANGED cauth
    /\ UNCHANGED <<evars, qvars, bvars, fvars, rvars>>

\* jwt.ParseWithClaims and token.Valid on the Bearer token of the Authorization
\* header: a request without the header, or with a token past its expiry time,
\* is refused (ENV is not "development" and DISABLE_AUTH is not "true")
TokenValid(header, expired) == header # "" /\ header \notin expired

\* JWTAuthMiddleware of the route group: 401 and c.Abort(), or the scope of the
\* token in the context and c.Next()
CJWTAuth ==
    /\ cpc = "auth"
    /\ IF TokenValid(creq.caller, cexpired)
       THEN /\ cauth' = TRUE
            /\ cpc' = "handler"
            /\ UNCHANGED cresp
       ELSE /\ cresp' = [status |-> 401, body |-> NoBody]
            /\ cpc' = "inval"
            /\ UNCHANGED cauth
    /\ UNCHANGED <<cache, creq, cevents, cmutated>>
    /\ UNCHANGED <<coord, cstore, cexpired>>
    /\ UNCHANGED <<evars, qvars, bvars, fvars, rvars>>

\* the service key of a summary request
SummaryKey(req) ==
    generateCacheKey(<<"summary">> \o generateMerchantSummaryCacheKey(req.caller, req.filter))

\* a handler that serves every authenticated caller
AccessAlwaysGranted(requestedMerchantID, merchantID) == FALSE

\* handler GetMerchantSummary: "if requestedMerchantID != merchantID"
AccessDenied(requestedMerchantID, merchantID) == requestedMerchantID # merchantID

\* handler GetMerchantSummary and service GetMerchantSummary up to the store read
CSummaryHandler ==
    /\ cpc = "handler"
    /\ creq.route = "summary"
    /\ IF AccessDenied(creq.pathID, creq.caller)
       THEN /\ cresp' = [status |-> 403, body |-> NoBody]
            /\ cpc' = "inval"
            /\ UNCHANGED cevents
       ELSE IF ServiceSkips(coord)
       THEN /\ cpc' = "store"
            /\ UNCHANGED <<cevents, cresp>>
       ELSE IF coord = "nil"
       THEN Panic
       ELSE IF coord = "live" /\ CacheGet(cache, SummaryKey(creq)) # <<>>
       THEN /\ cresp' = [status |-> 200, body |-> CacheGet(cache, SummaryKey(creq))]
            /\ cevents' = Append(cevents, "summary_read_hit")
            /\ cpc' = "inval"
       ELSE /\ cevents' = Append(cevents, "summary_read_miss")
            /\ cpc' = "store"
            /\ UNCHANGED cresp
    /\ UNCHANGED <<cache, creq, cmutated>>
    /\ UNCHANGED <<coord, cstore, cexpired>>
    /\ UNCHANGED cauth
    /\ UNCHANGED <<evars, qvars, bvars, fvars, rvars>>

\* a service that caches whatever the store read returned
StoreReadIgnored(err) == TRUE

\* service GetMerchantSummary: "if err != nil { return nil, err }" before the cache write
StoreReadSucceeded(err) == err = Nil

\* service GetMerchantSummary: transactionRepo.GetMerchantSummary
CStoreRead ==
    /\ cpc = "store"
    /\ \E err \in {Nil, ErrTimeout, ErrOutOfRange} :
          /\ IF err = Nil
             THEN /\ \E summary \in StoreSummaries(creq.caller, creq.filter) :
                        cresp' = [status |-> 200, body |-> <<summary>>]
                  /\ cevents' = Append(cevents, "store_read_ok")
             ELSE /\ cresp' = [status |-> SummaryResponse(err).status, body |-> NoBody]
                  /\ cevents' = Append(cevents, "store_read_fail")
          /\ cpc' = IF StoreReadSucceeded(err) THEN "svc_write" ELSE "inval"
    /\ UNCHANGED <<cache, creq, cmutated>>
    /\ UNCHANGED <<coord, cstore, cexpired>>
    /\ UNCHANGED cauth
    /\ UNCHANGED <<evars, qvars, bvars, fvars, rvars>>

\* service GetMerchantSummary: SetCachedMerchantSummary(cacheKey, summary, GetRedisTTL())
CSummaryWrite ==
    /\ cpc = "svc_write"
    /\ IF ServiceSkips(coord) \/ coord = "noop"
       THEN /\ cpc' = "inval"
            /\ UNCHANGED <<cache, cevents, cresp>>
       ELSE IF coord = "nil"
       THEN /\ Panic
            /\ UNCHANGED cache
       ELSE /\ cache' = CacheSet(cache, SummaryKey(creq), cresp.body, RedisTTL)
            /\ cevents' = Append(cevents, "summary_write")
            /\ cpc' = "inval"
            /\ UNCHANGED cresp
    /\ UNCHANGED <<creq, cmutated>>
    /\ UNCHANGED <<coord, cstore, cexpired>>
    /\ UNCHANGED cauth
    /\ UNCHANGED <<evars, qvars, bvars, fvars, rvars>>

\* the handlers of the transaction routes: service and repository read the
\* store and touch no cache
COtherHandler ==
    /\ cpc = "handler"
    /\ creq.route # "summary"
    /\ \/ /\ cresp' = [status |-> 200, body |-> <<TxBody(creq, cstore)>>]
          /\ cevents' = Append(cevents, "tx_store_read")
       \/ /\ cresp' = [status |-> 500, body |-> NoBody]
          /\ UNCHANGED cevents
    /\ cpc' = "inval"
    /\ UNCHANGED <<cache, creq, cmutated>>
    /\ UNCHANGED <<coord, cstore, cexpired>>
    /\ UNCHANGED cauth
    /\ UNCHANGED <<evars, qvars, bvars, fvars, rvars>>

\* getMerchantID(c): the scope JWTAuthMiddleware put in the context, "" when it
\* did not run or refused the request
getMerchantID(req, authenticated) == IF authenticated THEN req.caller ELSE ""

\* CacheInvalidationMiddleware after c.Next()
CInvalidation ==
    /\ cpc = "inval"
    /\ IF MiddlewareSkips(coord) \/ ~(shouldInvalidateCache(creq.method) /\ getMerchantID(creq, cauth) # "")
       THEN /\ cpc' = "mw_write"
            /\ UNCHANGED <<cache, cevents, cresp>>
       ELSE IF coord = "nil"
       THEN /\ Panic
            /\ UNCHANGED cache
       ELSE /\ cache' = IF coord = "live"
                        THEN InvalidateMerchantCache(
                                 InvalidateTransactionCache(cache, getMerchantID(creq, cauth)),
                                 getMerchantID(creq, cauth))
                        ELSE cache
            /\ cevents' = Append(cevents, "invalidate")
            /\ cpc' = "mw_write"
            /\ UNCHANGED cresp
    /\ cmutated' = IF shouldInvalidateCache(creq.method) /\ getMerchantID(creq, cauth) # ""
                   THEN cmutated \cup {getMerchantID(creq, cauth)}
                   ELSE cmutated
    /\ UNCHANGED creq
    /\ UNCHANGED <<coord, cstore, cexpired>>
    /\ UNCHANGED cauth
    /\ UNCHANGED <<evars, qvars, bvars, fvars, rvars>>

\* CacheMiddleware after c.Next(): a 200 response with a body is stored
CCacheStore ==
    /\ cpc = "mw_write"
    /\ IF MiddlewareLooksUp(coord, creq) /\ cresp.status = 200 /\ cresp.body # NoBody
       THEN /\ cache' = CacheSet(cache, middlewareCacheKey(creq), cresp.body, RedisTTL)
            /\ cevents' = Append(cevents, "api_write")
       ELSE UNCHANGED <<cache, cevents>>
    /\ cpc' = "done"
    /\ UNCHANGED <<creq, cresp, cmutated>>
    /\ UNCHANGED <<coord, cstore, cexpired>>
    /\ UNCHANGED cauth
    /\ UNCHANGED <<evars, qvars, bvars, fvars, rvars>>

\* between two requests a transaction is written to or removed from payment_tx_log
CStoreChange ==
    /\ cpc \in {"idle", "done"}
    /\ cstore' \in (SUBSET LateRows) \ {cstore}
    /\ cmutated' = Answered
    /\ cevents' = <<>>
    /\ cresp' = [status |-> 0, body |-> NoBody]
    /\ cpc' = "idle"
    /\ UNCHANGED <<cache, creq, coord, cauth, cexpired>>
    /\ UNCHANGED <<evars, qvars, bvars, fvars, rvars>>

\* the tokens of the model whose expiry time can pass while the process runs
ExpiringTokens == {"m1"}

\* between two requests the expiry time of a token passes
CTokenExpires ==
    /\ cpc \in {"idle", "done"}
    /\ \E token \in ExpiringTokens \ cexpired : cexpired' = cexpired \cup {token}
    /\ cmutated' = Answered
    /\ cevents' = <<>>
    /\ cresp' = [status |-> 0, body |-> NoBody]
    /\ cpc' = "idle"
    /\ UNCHANGED <<cache, creq, coord, cstore, cauth>>
    /\ UNCHANGED <<evars, qvars, bvars, fvars, rvars>>

NextCache ==
    \/ CStart
    \/ CCacheMiddleware
    \/ CJWTAuth
    \/ CSummaryHandler
    \/ CStoreRead
    \/ CSummaryWrite
    \/ COtherHandler
    \/ CInvalidation
    \/ CCacheStore
    \/ CStoreChange
    \/ CTokenExpires

SpecCache == InitCache /\ [][NextCache]_vars

(***************************************************************************)
(* The filter expression of a list request.  The text is a sequence of     *)
(* tokens: "(", ")", " AND ", " OR " and clauses; a clause is the sequence *)
(* of the parts strings.Split(condition, ":") yields, its value rejoined;  *)
(* a value is a sequence of atoms: numerals, words, dates and ",".         *)
(***************************************************************************)
\* a token that is no clause: "(", ")", " AND " or " OR "
Sym(t) == [t |-> t]

Clause(parts) == [t |-> "clause", parts |-> parts]

Num(digits) == [k |-> "num", digits |-> digits]

Word(w) == [k |-> "word", w |-> w]

\* a date or date-time text: the layout it is written in and the instant it names
DateText(layout, day, sec) == [k |-> "date", layout |-> layout, day |-> day, sec |-> sec]

\* config.FilterOperators: the keys of the map
FilterOperators ==
    {"eq", "ne", "gt", "gte", "lt", "lte", "like", "ilike", "in", "nin", "isnull", "isnotnull"}

\* models.TransactionFilter with every pointer nil
EmptyFilter ==
    [ MerchantID |-> <<>>, DeviceID |-> <<>>, ResponseCode |-> <<>>, DateTimeFrom |-> <<>>,
      DateTimeTo |-> <<>>, CurrencyCode |-> <<>>, AmountMin |-> <<>>, AmountMax |-> <<>>,
      TxLogType |-> <<>> ]

RECURSIVE SplitOR(_, _)
\* strings.Split(condition, " OR "): the pieces between the separators
SplitOR(tokens, current) ==
    IF tokens = <<>> THEN <<current>>
    ELSE IF Head(tokens).t = "OR"
         THEN <<current>> \o SplitOR(Tail(tokens), <<>>)
         ELSE SplitOR(Tail(tokens), Append(current, Head(tokens)))

RECURSIVE SplitComma(_, _)
\* strings.Split(value, ","): the pieces between the commas
SplitComma(atoms, current) ==
    IF atoms = <<>> THEN <<current>>
    ELSE IF Head(atoms).k = ","
         THEN <<current>> \o SplitComma(Tail(atoms), <<>>)
         ELSE SplitComma(Tail(atoms), Append(current, Head(atoms)))

RECURSIVE splitLoop(_, _, _)
\* the loop of splitPreservingParentheses for the delimiter " AND "
splitLoop(input, parenCount, current) ==
    IF input = <<>>
    THEN IF current # <<>> THEN <<current>> ELSE <<>>
    ELSE LET c == Head(input)
         IN  IF c.t = "("
             THEN splitLoop(Tail(input), parenCount + 1, Append(current, c))
             ELSE IF c.t = ")"
             THEN splitLoop(Tail(input), parenCount - 1, Append(current, c))
             ELSE IF parenCount = 0 /\ c.t = "AND"
             THEN (IF current # <<>> THEN <<current>> ELSE <<>>)
                      \o splitLoop(Tail(input), parenCount, <<>>)
             ELSE splitLoop(Tail(input), parenCount, Append(current, c))

splitPreservingParentheses(input) == splitLoop(input, 0, <<>>)

RECURSIVE TrimParens(_)
\* strings.Trim(condition, "()"): every leading and trailing parenthesis goes
TrimParens(tokens) ==
    IF tokens = <<>> THEN <<>>
    ELSE IF Head(tokens).t \in {"(", ")"} THEN TrimParens(Tail(tokens))
    ELSE IF tokens[Len(tokens)].t \in {"(", ")"}
         THEN TrimParens(SubSeq(tokens, 1, Len(tokens) - 1))
         ELSE tokens

\* strings.Split(condition, ":") with parts[2:] rejoined, for the text of an
\* OR-part: a parenthesis left in front becomes part of the field name, what
\* follows the clause becomes part of its value
ConditionParts(part) ==
    IF part = <<>> THEN <<"">>
    ELSE IF Head(part).t # "clause" THEN <<"(", "eq", <<>> >>
    ELSE IF Len(part) = 1 \/ Len(Head(part).parts) < 3 THEN Head(part).parts
    ELSE LET parts == Head(part).parts
         IN  <<parts[1], parts[2], Append(parts[3], Word(")"))>>

RECURSIVE DigitsValue(_)
\* the integer a numeral denotes
DigitsValue(digits) ==
    IF digits = <<>> THEN 0
    ELSE DigitsValue(SubSeq(digits, 1, Len(digits) - 1)) * 10 + digits[Len(digits)]

\* parseAmount for a text without a decimal point: fmt.Sscanf(value, "%d", &amount)
parseAmount(value) ==
    IF Len(value) = 1 /\ value[1].k = "num"
    THEN [ok |-> TRUE, amount |-> DigitsValue(value[1].digits)]
    ELSE [ok |-> FALSE, amount |-> 0]

\* the layouts parseDateTime tries
DateLayouts ==
    {"RFC3339", "2006-01-02T15:04:05", "2006-01-02 15:04:05", "2006-01-02",
     "2006/01/02 15:04:05", "2006/01/02"}

parseDateTime(value) ==
    IF Len(value) = 1 /\ value[1].k = "date" /\ value[1].layout \in DateLayouts
    THEN [ok |-> TRUE, date |-> Instant(value[1].day, value[1].sec, 0)]
    ELSE [ok |-> FALSE, date |-> Instant(0, 0, 0)]

isDateOnly(value) ==
    Len(value) = 1 /\ value[1].k = "date" /\ value[1].layout \in {"2006-01-02", "2006/01/02"}

\* 24*time.Hour - time.Nanosecond added to a date-only upper bound
EndOfDay(date) == TimeAdd(date, 86399, 999999999)

\* the text a value stands for where the filter keeps the string itself
ValueText(value) == IF Len(value) = 1 /\ value[1].k = "word" THEN value[1].w ELSE "?"

Parsed(filter) == [ok |-> TRUE, filter |-> filter]

ParseError == [ok |-> FALSE, filter |-> EmptyFilter]

parseAmountCondition(operator, value, filter) ==
    CASE operator = "gte" ->
            IF parseAmount(value).ok
            THEN Parsed([filter EXCEPT !.AmountMin = <<parseAmount(value).amount>>])
            ELSE ParseError
      [] operator = "lte" ->
            IF parseAmount(value).ok
            THEN Parsed([filter EXCEPT !.AmountMax = <<parseAmount(value).amount>>])
            ELSE ParseError
      [] operator = "between" ->
            LET parts == SplitComma(value, <<>>)
            IN  IF Len(parts) # 2 THEN ParseError
                ELSE IF ~parseAmount(parts[1]).ok \/ ~parseAmount(parts[2]).ok THEN ParseError
                ELSE Parsed([filter EXCEPT !.AmountMin = <<parseAmount(parts[1]).amount>>,
                                           !.AmountMax = <<parseAmount(parts[2]).amount>>])
      [] OTHER -> Parsed(filter)

parseDateCondition(operator, value, filter) ==
    CASE operator = "gte" ->
            IF parseDateTime(value).ok
            THEN Parsed([filter EXCEPT !.DateTimeFrom = <<parseDateTime(value).date>>])
            ELSE ParseError
      [] operator = "lte" ->
            IF parseDateTime(value).ok
            THEN Parsed([filter EXCEPT !.DateTimeTo =
                            <<IF isDateOnly(value) THEN EndOfDay(parseDateTime(value).date)
                              ELSE parseDateTime(value).date>>])
            ELSE ParseError
      [] operator = "between" ->
            LET parts == SplitComma(value, <<>>)
            IN  IF Len(parts) # 2 THEN ParseError
                ELSE IF ~parseDateTime(parts[1]).ok \/ ~parseDateTime(parts[2]).ok THEN ParseError
                ELSE Parsed([filter EXCEPT
                        !.DateTimeFrom = <<parseDateTime(parts[1]).date>>,
                        !.DateTimeTo = <<IF isDateOnly(parts[2])
                                         THEN EndOfDay(parseDateTime(parts[2]).date)
                                         ELSE parseDateTime(parts[2]).date>>])
      [] OTHER -> Parsed(filter)

\* the equality-only fields: the value is kept for "eq", any other operator of
\* the map leaves the filter as it was
parseEqCondition(name, operator, value, filter) ==
    IF operator = "eq"
    THEN Parsed([filter EXCEPT ![name] = <<ValueText(value)>>])
    ELSE Parsed(filter)

parseCondition(condition, filter) ==
    LET parts == ConditionParts(condition)
    IN  IF Len(parts) < 3 THEN ParseError
        ELSE IF parts[2] \notin FilterOperators THEN ParseError
        ELSE CASE parts[1] = "merchant_id"   -> parseEqCondition("MerchantID", parts[2], parts[3], filter)
               [] parts[1] = "device_id"     -> parseEqCondition("DeviceID", parts[2], parts[3], filter)
               [] parts[1] = "response_code" -> parseEqCondition("ResponseCode", parts[2], parts[3], filter)
               [] parts[1] = "currency_code" -> parseEqCondition("CurrencyCode", parts[2], parts[3], filter)
               [] parts[1] = "tx_log_type"   -> parseEqCondition("TxLogType", parts[2], parts[3], filter)
               [] parts[1] = "amount"        -> parseAmountCondition(parts[2], parts[3], filter)
               [] parts[1] = "tx_date_time"  -> parseDateCondition(parts[2], parts[3], filter)
               [] OTHER -> ParseError

RECURSIVE parseConditions(_, _)
\* the inner loops of ParseAdvancedFilter: every OR-part is parsed into the
\* same filter, the first error ends the parse
parseConditions(orConditions, filter) ==
    IF orConditions = <<>> THEN Parsed(filter)
    ELSE LET r == parseCondition(Head(orConditions), filter)
         IN  IF ~r.ok THEN ParseError ELSE parseConditions(Tail(orConditions), r.filter)

RECURSIVE parseGroups(_, _)
\* the outer loop of ParseAdvancedFilter over the AND-conditions
parseGroups(conditions, filter) ==
    IF conditions = <<>> THEN Parsed(filter)
    ELSE LET condition == Head(conditions)
             inner == IF Head(condition).t = "(" /\ condition[Len(condition)].t = ")"
                      THEN TrimParens(condition)
                      ELSE condition
             r == parseConditions(SplitOR(inner, <<>>), filter)
         IN  IF ~r.ok THEN ParseError ELSE parseGroups(Tail(conditions), r.filter)

ParseAdvancedFilter(filterString) ==
    IF filterString = <<>> THEN Parsed(EmptyFilter)
    ELSE parseGroups(splitPreservingParentheses(filterString), EmptyFilter)

(***************************************************************************)
(* SpecFilter: GET /transactions?filter=..., from the handler to the page.  *)
(***************************************************************************)
\* the thirteen operators of the documented grammar and one that is in no list
FOperators == FilterOperators \cup {"between", "regex"}

\* the values the clauses of the requests carry, by field
FValues(field) ==
    CASE field = "amount" ->
            { <<Num(<<1, 5>>)>>, <<Word("abc")>>, <<Num(<<1, 5>>), [k |-> ","], Num(<<3, 5>>)>> }
      [] field = "tx_date_time" ->
            { <<DateText("2006-01-02", 365, 0)>>, <<DateText("2006/01/02", 365, 0)>>,
              <<DateText("2006-01-02T15:04:05", 365, 43200)>>,
              <<DateText("2006-01-02", 0, 0), [k |-> ","], DateText("2006-01-02", 365, 0)>>,
              <<Word("abc")>> }
      [] field = "tx_log_type" -> { <<Word("payment")>>, <<Word("refund")>>, <<Word("chargeback")>> }
      [] field = "response_code" -> { <<Word("00")>>, <<Word("05")>> }
      [] OTHER -> { <<Word("ZAR")>> }

FFields ==
    {"merchant_id", "device_id", "response_code", "currency_code", "tx_log_type", "amount",
     "tx_date_time", "card_type"}

\* every expression of one clause field:op:value of the fields, operators and
\* values above, a condition with two parts only, and the empty expression
FSingles ==
    { <<Clause(<<f, op, v>>)>> : <<f, op, v>> \in
        { <<f, op, v>> \in FFields \X FOperators \X UNION {FValues(g) : g \in FFields} :
            v \in FValues(f) } }
    \cup { <<Clause(<<"amount", "15">>)>>, <<>> }

\* the clauses the composed expressions are made of
FAtoms ==
    { Clause(<<"response_code", "eq", <<Word("00")>> >>),
      Clause(<<"response_code", "eq", <<Word("05")>> >>),
      Clause(<<"amount", "gte", <<Num(<<3, 0>>)>> >>),
      Clause(<<"tx_log_type", "eq", <<Word("payment")>> >>) }

FComposed ==
    { <<a, Sym("AND"), b>> : a, b \in FAtoms }
    \cup { <<a, Sym("OR"), b>> : a, b \in FAtoms }
    \cup { <<Sym("("), a, Sym("OR"), b, Sym(")")>> : a, b \in FAtoms }
    \cup { <<Sym("("), a, Sym("OR"), b, Sym(")"), Sym("AND"), c>> : a, b, c \in FAtoms }
    \cup { <<a, Sym("OR"), Sym("("), b, Sym("AND"), c, Sym(")")>> : a, b, c \in FAtoms }

\* the filters sent to /merchants/:merchant_id/transactions: none, one clause, two
FMerchantFilters ==
    { <<>>, <<Clause(<<"response_code", "eq", <<Word("00")>> >>)>>,
      <<Clause(<<"response_code", "eq", <<Word("00")>> >>), Sym("AND"),
        Clause(<<"amount", "gte", <<Num(<<1, 5>>)>> >>)>> }

\* path: the merchant_id of /merchants/:merchant_id/transactions, none for /transactions
FRequests ==
    [caller : {"p1", "m1"}, filter : FSingles \cup FComposed, path : {<<>>}]
    \cup [caller : {"p1", "m1"}, filter : FMerchantFilters, path : {<<"m1">>, <<"m2">>}]

\* GetMerchantTransactions: the values of the parameter filter in the
\* RawQuery after the rewrite, in order
RewrittenFilters(existingFilter, requestedMerchantID) ==
    LET restriction == Clause(<<"merchant_id", "eq", <<Word(requestedMerchantID)>> >>)
    IN  IF existingFilter = <<>>
        THEN << <<restriction>> >>
        ELSE << existingFilter, existingFilter \o <<Sym("AND"), restriction>> >>

\* c.Query("filter") in GetTransactions: the first value of the parameter,
\* read from the RawQuery as it is now or from the query parsed by the
\* c.Query("filter") of GetMerchantTransactions
FilterParam(req, cached) ==
    IF req.path = <<>> \/ cached THEN req.filter
    ELSE RewrittenFilters(req.filter, req.path[1])[1]

InitFilter ==
    /\ freq \in FRequests
    /\ fpc = "start"
    /\ ffilter = Nil
    /\ fstmts = <<>>
    /\ frows = {}
    /\ fresp = [status |-> 0, code |-> ""]
    /\ fcached \in BOOLEAN
    /\ IdleError
    /\ IdleQuery
    /\ IdleBackend
    /\ IdleCache
    /\ IdleRow

\* handler GetTransactions up to the parse of the filter parameter, entered
\* directly or through GetMerchantTransactions
FParse ==
    /\ fpc = "start"
    /\ LET r == ParseAdvancedFilter(FilterParam(freq, fcached))
       IN  IF r.ok
           THEN /\ ffilter' = r.filter
                /\ fpc' = "query"
                /\ UNCHANGED fresp
           ELSE /\ fresp' = [status |-> 400, code |-> "INVALID_FILTER"]
                /\ fpc' = "done"
                /\ UNCHANGED ffilter
    /\ UNCHANGED <<freq, fstmts, frows, fcached>>
    /\ UNCHANGED <<evars, qvars, bvars, cvars, rvars>>

\* service and repository GetTransactions with the parsed filter: default
\* fields, sort, page and limit; the page is returned with 200
FQuery ==
    /\ fpc = "query"
    /\ fstmts' = GetTransactionsStatements(freq.caller, ffilter, <<>>, <<>>, 1, DefaultPageSize,
                                           "UTC", "bin_id_and_pan_id")
    /\ frows' = { row.p.payment_tx_log_id : row \in PageRows(fstmts'[2]) }
    /\ fresp' = [status |-> 200, code |-> ""]
    /\ fpc' = "done"
    /\ UNCHANGED <<freq, ffilter, fcached>>
    /\ UNCHANGED <<evars, qvars, bvars, cvars, rvars>>

NextFilter ==
    \/ FParse
    \/ FQuery

SpecFilter == InitFilter /\ [][NextFilter]_vars

(***************************************************************************)
(* Claims checked under SpecError.                                         *)
(***************************************************************************)

\* the list request's store call went through the harness
ViaHarness == ereq.endpoint = "list" /\ ereq.fieldsOK

\* every invocation so far failed
AllFailed == \A i \in 1..Len(outcomes) : outcomes[i] # Nil

\* the harness used up its attempts
BudgetExhausted == Len(outcomes) = MaxAttempts /\ AllFailed

\* C3: on the list endpoint a store error is answered 503 SERVICE_UNAVAILABLE
\* exactly when its text matches the transient pattern set and the retry budget
\* was exhausted, and 500 DATABASE_ERROR otherwise.
C3_TransientIff503 ==
    (epc = "done" /\ ViaHarness /\ svcErr # Nil) =>
        IF IsRetryableError(lastErr) /\ BudgetExhausted
        THEN response.status = 503 /\ response.code = "SERVICE_UNAVAILABLE"
        ELSE response.status = 500 /\ response.code = "DATABASE_ERROR"

\* C4: the message of every 4xx/5xx response is the taxonomy template of its
\* code and holds no store-internal marker.
C4_MessageIsTemplate ==
    response.status >= 400 =>
        /\ response.message = GetUserFriendlyMessage(response.code)
        /\ ~IsInternalError(response.message)

\* C6: with the default configuration the harness invokes the operation at most
\* 3 times, stops at the first success, and sleeps 1s before the second attempt
\* and 2s before the third.
C6_BoundedRetry ==
    ViaHarness =>
        /\ Len(outcomes) <= 3
        /\ \A i \in 1..Len(outcomes) :
              outcomes[i] = Nil =>
                  i = Len(outcomes) /\ epc \in {"respond", "done"} /\ svcErr = Nil
        /\ Len(sleeps) <= 2
        /\ \A i \in 1..Len(sleeps) : sleeps[i] = IF i = 1 THEN 1 ELSE 2
        /\ epc = "retry" => Len(sleeps) = Len(outcomes)
        /\ (epc \in {"sleep", "respond", "done"} /\ outcomes # <<>>)
              => Len(sleeps) = Len(outcomes) - 1

\* C6 witness: two failures, two sleeps of 1s and 2s, success at the third attempt
C6_Witness ==
    /\ ViaHarness /\ epc = "done"
    /\ Len(outcomes) = 3 /\ outcomes[3] = Nil
    /\ sleeps = <<1, 2>>
    /\ response.status = 200

\* C7: an error that matches no transient pattern ends the harness after exactly
\* one invocation, without any sleep.
C7_FailFast ==
    (ViaHarness /\ Len(outcomes) >= 1 /\ outcomes[1] # Nil /\ ~IsRetryableError(outcomes[1])) =>
        /\ Len(outcomes) = 1
        /\ sleeps = <<>>
        /\ epc \in {"respond", "done"}

(***************************************************************************)
(* Claims checked under SpecQuery.                                         *)
(***************************************************************************)

\* a row whose joined merchant is the caller or is provisioned by the caller
InScope(row, merchantID) ==
    /\ row.m # <<>>
    /\ \/ row.m[1].merchant_id = merchantID
       \/ row.m[1].provisioner_id = <<merchantID>>

\* C1: for list, single-record and summary requests of caller M every row that
\* contributes to a successful response has a joined merchant with
\* merchant_id = M or provisioner_id = M, whatever the filter, sort, projection
\* and pagination.
C1_ScopeConfinement ==
    (qpc = "done" /\ qresp = 200 /\ qreq.endpoint \in {"list", "single", "summary"}) =>
        \A row \in contributing : InScope(row, qreq.caller)

\* the text of a statement: every fragment of SELECT, FROM, WHERE, GROUP BY, ORDER BY
SQLText(stmt) ==
    stmt.select \o stmt.from \o [i \in 1..Len(stmt.where) |-> stmt.where[i].sql]
        \o stmt.group \o stmt.order

\* the string literals of the repository from which statement text is made
CodeFragments ==
    { "p.payment_tx_log_id", "p.amount", "m.name as merchant_name",
      "p.result_code as response_code", " as pan", " as tx_log_type", " as ", "p.", ", ", " ",
      "ASC", "DESC", "p.updated_at DESC", "count(*)",
      "TO_CHAR(TIMEZONE('", "UTC",
      "', p.updated_at), 'YYYY-MM-DD\"T\"HH24:MI:SS.MS\"Z\"') as tx_date_time",
      "p.currency_code", "c.curr_short as currency_name", "c.curr_delim",
      "DISTINCT ON (p.payment_tx_log_id) ",
      "DISTINCT ON (p.payment_tx_log_id) p.*, m.name as merchant_name, c.curr_short as currency_name, c.curr_delim",
      "m.merchant_id, m.name as merchant_name, COUNT(*) as total_transactions, SUM(CASE WHEN p.result_code IN ('00', '10') THEN 1 ELSE 0 END) as successful_transactions, SUM(COALESCE(p.amount, 0)) as total_amount, MIN(p.updated_at) as min_date, MAX(p.updated_at) as max_date",
      "m.merchant_id, m.name",
      "payment_tx_log p", "LEFT JOIN merchants m ON p.merchant_id = m.merchant_id",
      "LEFT JOIN currency c ON p.currency_code = c.curr_code",
      "m.merchant_id = ? OR m.provisioner_id = ?", "p.payment_tx_log_id = ?",
      "p.result_code = ?", "p.updated_at >= ?", "p.updated_at <= ?", "p.currency_code = ?",
      "p.amount >= ?", "p.amount <= ?", "p.payment_tx_type_id = ?" }

\* the fragments and names of the catalogue
CatalogueFragments ==
    { FieldMappings[f] : f \in DOMAIN FieldMappings }
        \cup { PANFormats[f] : f \in DOMAIN PANFormats }
        \cup validFields

\* C5: in every statement composed for a list, single-record, search, count or
\* summary request the SQL text is made of code literals and catalogue fragments
\* only: no value of the request is concatenated into it.
C5_NoInterpolation ==
    \A i \in 1..Len(stmts) :
        \A j \in 1..Len(SQLText(stmts[i])) :
            SQLText(stmts[i])[j] \in CodeFragments \cup CatalogueFragments

(***************************************************************************)
(* Claims checked under SpecBackend.                                       *)
(***************************************************************************)

\* C2: a select performed while serving one request never changes the store
\* another request's statements run on: every statement of a non-legacy request
\* runs on the primary store, also while legacy requests are in flight.
C2_NonLegacyOnPrimary ==
    \A r \in BRequests :
        bkind[r] = "v2" => \A i \in 1..Len(bstore[r]) : bstore[r][i] = "postgres"

(***************************************************************************)
(* Claims checked under SpecCache.                                         *)
(***************************************************************************)

HasEvent(e) == \E i \in 1..Len(cevents) : cevents[i] = e

StoreReads == {"store_read_ok", "store_read_fail"}

\* C8: in a summary request every store read comes after a missed cache read
\* (there is no cache read when main was left without a coordinator);
\* after a cache hit the store is not read; the summary is written to the cache
\* only right after a successful store read, with the default TTL; after a
\* failed store read nothing is written to the cache.
C8_ReadThroughOrder ==
    /\ \A i \in 1..Len(cevents) :
          cevents[i] \in StoreReads =>
              /\ coord = "nil" \/ \E j \in 1..(i - 1) : cevents[j] = "summary_read_miss"
              /\ \A j \in 1..(i - 1) : cevents[j] \in {"api_read_miss", "summary_read_miss"}
    /\ (HasEvent("summary_read_hit") \/ HasEvent("api_read_hit")) =>
          \A i \in 1..Len(cevents) : cevents[i] \notin StoreReads
    /\ \A i \in 1..Len(cevents) :
          cevents[i] = "summary_write" => (i > 1 /\ cevents[i - 1] = "store_read_ok")
    /\ HasEvent("store_read_fail") =>
          (~HasEvent("summary_write") /\ ~HasEvent("api_write"))
    /\ \A e \in cache : e.ttl = 1800 /\ e.val # <<>>

\* C8 witness: a summary request that missed, read the store and wrote the cache
C8_Witness ==
    /\ cpc = "done" /\ creq.route = "summary" /\ cresp.status = 200
    /\ cevents = <<"api_read_miss", "summary_read_miss", "store_read_ok", "summary_write", "api_write">>
    /\ CacheGet(cache, SummaryKey(creq)) = cresp.body

\* the cached summary entries of a scope: those of the service and the cached
\* summary responses of the middleware
SummaryEntriesOf(merchantID) ==
    { e \in cache :
        \/ e.key.parts[1] = "summary" /\ e.key.parts[3] = merchantID
        \/ e.key.parts[2] = "summary" /\ e.key.parts[6] = merchantID }

\* C9: once a POST, PUT, DELETE or PATCH request of scope M has completed, no
\* cached summary entry of M remains, and the next successful summary request of
\* M reads the store.
C9_InvalidatedAfterMutation ==
    /\ (cpc = "done" /\ shouldInvalidateCache(creq.method)) =>
          SummaryEntriesOf(creq.caller) = {}
    /\ (cpc = "done" /\ creq.route = "summary" /\ cresp.status = 200
            /\ creq.caller \in cmutated) =>
          HasEvent("store_read_ok")

\* C10: a summary served from the summary cache is a summary the store computes
\* for the filter of the request.
C10_HitMatchesFilter ==
    HasEvent("summary_read_hit") =>
        /\ cresp.body # NoBody
        /\ cresp.body[1] \in StoreSummaries(creq.caller, creq.filter)

\* reads and writes of the cache, by the middleware or by the service
CacheReadsAndWrites ==
    {"api_read_hit", "api_read_miss", "api_write",
     "summary_read_hit", "summary_read_miss", "summary_write"}

C12_CacheUnavailable ==
    coord # "live" =>
        /\ cache = {}
        /\ ~HasEvent("panic")
        /\ ~HasEvent("api_read_hit") /\ ~HasEvent("summary_read_hit")
        /\ (creq # Nil /\ creq.route = "summary" /\ cresp.status = 200) =>
              /\ HasEvent("store_read_ok")
              /\ cresp.body[1] \in StoreSummaries(creq.caller, creq.filter)

\* C12 witness: the ping failed at start, main kept a nil coordinator, and a
\* summary request is answered from the store
C12_Witness ==
    /\ coord = "nil"
    /\ cpc = "done" /\ creq.route = "summary" /\ cresp.status = 200
    /\ cevents = <<"store_read_ok">>
    /\ cresp.body # NoBody

\* C13: once the request is cancelled during a store call or a backoff, the
\* harness starts no further attempt (at most the call in flight ends), sleeps
\* no further backoff (at most the one in progress ends), and the handler does
\* not answer the request with a success.
C13_CancellationStops ==
    cancelled # Nil =>
        /\ Len(outcomes) <= cancelled.calls + (IF cancelled.during = "retry" THEN 1 ELSE 0)
        /\ Len(sleeps) <= cancelled.sleeps + (IF cancelled.during = "sleep" THEN 1 ELSE 0)
        /\ epc = "done" => response.status # 200

(***************************************************************************)
(* Claims checked under SpecFilter.                                        *)
(***************************************************************************)

\* the request's filter is one clause field:op:value
SingleClause == Len(freq.filter) = 1 /\ Len(freq.filter[1].parts) = 3

ClauseField == freq.filter[1].parts[1]

ClauseOperator == freq.filter[1].parts[2]

ClauseValue == freq.filter[1].parts[3]

InvalidFilter == [status |-> 400, code |-> "INVALID_FILTER"]

\* the closed operator set of the filter grammar
DocumentedOperators ==
    {"eq", "ne", "gt", "gte", "lt", "lte", "like", "ilike", "in", "nin", "between",
     "isnull", "isnotnull"}

\* C14: a clause passes the operator validation exactly when its operator is
\* one of the thirteen documented ones; with any other operator the request is
\* answered 400 INVALID_FILTER.
C14_OperatorClosure ==
    (fpc = "done" /\ SingleClause) =>
        /\ ClauseOperator \in FilterOperators <=> ClauseOperator \in DocumentedOperators
        /\ ClauseOperator \notin DocumentedOperators => fresp = InvalidFilter

\* the ids of the rows of the caller's scope whose update timestamp lies
\* between two instants, both included
RowsBetween(caller, from, to) ==
    { row.p.payment_tx_log_id :
        row \in { r \in JoinedRows : /\ InScope(r, caller)
                                     /\ TimeLE(from, r.p.updated_at)
                                     /\ TimeLE(r.p.updated_at, to) } }

\* C15: a date-only value D on tx_date_time with lte, or as the second half of
\* between, gives the filter the upper bound D 23:59:59.999999999; the request
\* is accepted, and a between selects exactly the rows from its first instant
\* to that bound.
C15_DateUpperBound ==
    (fpc = "done" /\ SingleClause /\ ClauseField = "tx_date_time") =>
        /\ (ClauseOperator = "lte" /\ isDateOnly(ClauseValue)) =>
              /\ fresp.status = 200
              /\ ffilter.DateTimeTo = <<Instant(ClauseValue[1].day, 86399, 999999999)>>
        /\ (ClauseOperator = "between" /\ Len(ClauseValue) = 3 /\ isDateOnly(<<ClauseValue[3]>>)) =>
              /\ fresp.status = 200
              /\ ffilter.DateTimeTo = <<Instant(ClauseValue[3].day, 86399, 999999999)>>
              /\ frows = RowsBetween(freq.caller,
                                     Instant(ClauseValue[1].day, ClauseValue[1].sec, 0),
                                     Instant(ClauseValue[3].day, 86399, 999999999))

\* the operators the filter language accepts for a field
SupportedPairing(field, operator) ==
    IF field \in {"amount", "tx_date_time"}
    THEN operator \in {"gte", "lte", "between"}
    ELSE operator = "eq"

\* C16: a clause on a filterable field whose operator is documented but not
\* supported for that field is answered 400 INVALID_FILTER.
C16_UnsupportedPairing ==
    (fpc = "done" /\ SingleClause /\ ClauseField \in FFields \ {"card_type"}
        /\ ClauseOperator \in DocumentedOperators
        /\ ~SupportedPairing(ClauseField, ClauseOperator)) =>
        fresp = InvalidFilter

TxLogTypeLabels == {"payment", "reversal", "void", "refund", "mm purchase", "mm refund"}

\* C17: tx_log_type:eq:L with a label L outside the six known ones is answered
\* 400 INVALID_FILTER, and no statement runs for a filter with a tx-log-type
\* unless it carries the type predicate.
C17_UnknownTxLogType ==
    /\ (fpc = "done" /\ SingleClause /\ ClauseField = "tx_log_type" /\ ClauseOperator = "eq"
            /\ ValueText(ClauseValue) \notin TxLogTypeLabels) =>
          fresp = InvalidFilter
    /\ (fpc = "done" /\ ffilter # Nil /\ ffilter.TxLogType # <<>>) =>
          \A i \in 1..Len(fstmts) :
              \E j \in 1..Len(fstmts[i].where) :
                  fstmts[i].where[j].sql = "p.payment_tx_type_id = ?"

\* the ids a request of the caller returns for a filter expression
RowsFor(caller, expression) ==
    { row.p.payment_tx_log_id :
        row \in PageRows(GetTransactionsStatements(caller, ParseAdvancedFilter(expression).filter,
                             <<>>, <<>>, 1, DefaultPageSize, "UTC", "bin_id_and_pan_id")[2]) }

\* C19: a OR b, with or without parentheses, selects the union of the rows a
\* selects and the rows b selects; a AND b selects the rows both select.
C19_BooleanGrouping ==
    fpc = "done" =>
        /\ (Len(freq.filter) = 3 /\ freq.filter[2].t = "OR") =>
              /\ fresp.status = 200
              /\ frows = RowsFor(freq.caller, <<freq.filter[1]>>)
                            \cup RowsFor(freq.caller, <<freq.filter[3]>>)
        /\ (Len(freq.filter) = 5 /\ freq.filter[3].t = "OR") =>
              /\ fresp.status = 200
              /\ frows = RowsFor(freq.caller, <<freq.filter[2]>>)
                            \cup RowsFor(freq.caller, <<freq.filter[4]>>)
        /\ (Len(freq.filter) = 3 /\ freq.filter[2].t = "AND") =>
              /\ fresp.status = 200
              /\ frows = RowsFor(freq.caller, <<freq.filter[1]>>)
                            \cap RowsFor(freq.caller, <<freq.filter[3]>>)

(***************************************************************************)
(* Further claims checked under SpecQuery.                                 *)
(***************************************************************************)

\* C18: a list, single-record or search request whose fields hold a name that
\* is not in the catalogue is answered with a 4xx status and composes no
\* statement; every name of a request that composed statements is in the
\* catalogue.
C18_FieldValidity ==
    (qpc = "done" /\ qreq.endpoint \in {"list", "single", "search"}) =>
        /\ (\E i \in 1..Len(qreq.fields) : qreq.fields[i] \notin validFields) =>
              /\ qresp \in 400..499
              /\ stmts = <<>>
        /\ stmts # <<>> =>
              \A i \in 1..Len(qreq.fields) : qreq.fields[i] \in validFields

\* the order one sort term asks for between a row and a later row
InSortOrder(term, first, second) ==
    LET le(a, b) == IF term.Field = "amount"
                    THEN a.p.amount <= b.p.amount
                    ELSE TimeLE(a.p.updated_at, b.p.updated_at)
    IN  IF term.Direction = "desc" THEN le(second, first) ELSE le(first, second)

\* C20: the rows of a list response are in the order of the sort term of the
\* request: with sort=tx_date_time:desc by update timestamp descending, with
\* sort=amount:DESC by amount descending.
C20_SortEffect ==
    (qpc = "done" /\ qresp = 200 /\ qreq.endpoint = "list" /\ Len(qreq.sort) = 1
        /\ qreq.sort[1].Field \in {"tx_date_time", "amount"}) =>
        LET page == PageSeq(stmts[2])
            term == ParseSort(qreq.sort).sort[1]
        IN  \A i, j \in 1..Len(page) : i < j => InSortOrder(term, page[i], page[j])

RECURSIVE OrderTerms(_, _)
\* the terms of an ORDER BY text: the fragments between the ", " separators
OrderTerms(order, current) ==
    IF order = <<>> THEN <<current>>
    ELSE IF Head(order) = ", "
         THEN <<current>> \o OrderTerms(Tail(order), <<>>)
         ELSE OrderTerms(Tail(order), Append(current, Head(order)))

\* C21: in every list statement (list and search endpoint, any sort) the first
\* ORDER BY term is p.payment_tx_log_id, and the sort terms of the request
\* follow it in the order given, each with its field and its direction.
C21_DistinctSortPrefix ==
    (qpc \in {"exec", "done"} /\ qreq.endpoint \in {"list", "search"} /\ stmts # <<>>) =>
        LET terms == OrderTerms(stmts[2].order, <<>>)
        IN  /\ terms[1] = <<"p.payment_tx_log_id">>
            /\ Len(qreq.sort) > 0 =>
                  /\ Len(terms) = Len(qreq.sort) + 1
                  /\ \A i \in 1..Len(qreq.sort) :
                        LET term == terms[i + 1]
                            field == qreq.sort[i].Field
                        IN  /\ IF field \in DOMAIN FieldMappings
                               THEN term[1] = FieldMappings[field]
                               ELSE term[2] = field
                            /\ term[Len(term)] =
                                  (IF qreq.sort[i].Direction \in {"desc", "DESC"} THEN "DESC" ELSE "ASC")

C21_Witness ==
    /\ qpc = "exec"
    /\ qreq.endpoint = "search"
    /\ Len(qreq.sort) > 0
    /\ Len(OrderTerms(stmts[2].order, <<>>)) = 2

C23_SummaryAuthorisation ==
    (creq # Nil /\ creq.route = "summary" /\ TokenValid(creq.caller, cexpired)
        /\ creq.pathID # creq.caller) =>
        /\ cresp.body = NoBody
        /\ cpc = "done" => cresp.status = 403
        /\ \A i \in 1..Len(cevents) : cevents[i] \notin StoreReads \cup {"api_read_hit", "summary_read_hit"}

\* C23 witness: with a live cache that holds the other merchant's summary, the
\* request for it has been refused
C23_Witness ==
    /\ coord = "live"
    /\ cpc = "done" /\ creq.route = "summary" /\ creq.caller = "m1" /\ creq.pathID = "m2"
    /\ cresp.status = 403
    /\ cauth
    /\ \E e \in cache : e.val # <<>> /\ e.val[1].MerchantID = "m2"

\* C28: a 200 response of a protected route is returned only to a request
\* whose credentials JWTAuthMiddleware verified in that same request.
C28_AuthBeforeCachedResponse ==
    (creq # Nil /\ cpc = "done" /\ cresp.status = 200) => cauth

\* C24: every summary returned to a caller, freshly computed, served from a
\* cache or for no matching rows, has successful + failed = total; its average
\* is total_amount / total and its success rate 100 * successful / total when
\* total > 0, and both are 0 otherwise.
C24_SummaryLaw ==
    (creq # Nil /\ creq.route = "summary" /\ cresp.status = 200 /\ cresp.body # NoBody) =>
        LET summary == cresp.body[1]
            total   == summary.TotalTransactions
        IN  /\ summary.SuccessfulTransactions + summary.FailedTransactions = total
            /\ total >= 0
            /\ summary.AverageAmount.den # 0 /\ summary.SuccessRate.den # 0
            /\ IF total > 0
               THEN /\ summary.AverageAmount.num * total
                          = summary.TotalAmount * summary.AverageAmount.den
                    /\ summary.SuccessRate.num * total
                          = 100 * summary.SuccessfulTransactions * summary.SuccessRate.den
               ELSE /\ summary.AverageAmount.num = 0
                    /\ summary.SuccessRate.num = 0

\* C24 witness: a summary with a failed transaction served from the summary cache
C24_Witness ==
    /\ cpc = "done" /\ creq.route = "summary" /\ cresp.status = 200
    /\ HasEvent("summary_read_hit")
    /\ cresp.body[1].TotalTransactions = 2
    /\ cresp.body[1].FailedTransactions = 1

(***************************************************************************)
(* Further claims checked under SpecBackend.                               *)
(***************************************************************************)

\* C25: a statement that a request of the non-legacy family issues while the
\* legacy flag is false never runs on the legacy handle, whichever of the two
\* handles exist.
C25_PrimaryByDefault ==
    [][\A r \in BRequests :
          (bkind[r] = "v2" /\ ~useMysql /\ Len(bstore'[r]) > Len(bstore[r])) =>
              bstore'[r][Len(bstore'[r])] # "mysql"]_vars

(***************************************************************************)
(* Further claims checked under SpecError.                                 *)
(***************************************************************************)

\* the text of an error ends with the text of another
Carries(wrapper, err) ==
    /\ Len(wrapper) >= Len(err)
    /\ SubSeq(wrapper, Len(wrapper) - Len(err) + 1, Len(wrapper)) = err

\* C26: when every attempt of the harness failed, the harness returns an error
\* that carries the error of the last attempt, never success, and it wrote no
\* log line for that last failure: its lines are those of the earlier attempts.
C26_FinalErrorReturned ==
    (ViaHarness /\ BudgetExhausted) =>
        /\ epc \in {"respond", "done"}
        /\ svcErr # Nil
        /\ Carries(svcErr, outcomes[Len(outcomes)])
        /\ printed = Len(outcomes) - 1
        /\ epc = "done" => response.status >= 500

\* C26 witness: three failures, the last one different from the first two
C26_Witness ==
    /\ ViaHarness /\ BudgetExhausted /\ epc = "done"
    /\ outcomes[1] = ErrTimeout /\ outcomes[3] = ErrBrokenPipe
    /\ printed = 2

\* C30: on the list, single-record, search and summary paths a store read
\* that fails with a transient error is repeated by the harness: an error
\* reaches the caller only after as many failed reads as the budget allows.
C30_RetryCoverage ==
    (epc = "done" /\ outcomes # <<>> /\ AllFailed
        /\ \A i \in 1..Len(outcomes) : IsRetryableError(outcomes[i])) =>
        Len(outcomes) = 3

(***************************************************************************)
(* SpecRow: the derived fields of the transaction records that the list    *)
(* endpoint and the single-record endpoint return.  One stored row, one    *)
(* request; the request names valid fields only.                           *)
(***************************************************************************)

\* payment_tx_type_id of the stored row: the six known discriminators and one other
TypeIDs == {0, 1, 2, 3, 9, 10, 7}

\* models.Transaction.GetTypeString
GetTypeString(PaymentTxTypeID) ==
    CASE PaymentTxTypeID = 0 -> "payment"
      [] PaymentTxTypeID = 1 -> "reversal"
      [] PaymentTxTypeID = 2 -> "void"
      [] PaymentTxTypeID = 3 -> "refund"
      [] PaymentTxTypeID = 9 -> "mm purchase"
      [] PaymentTxTypeID = 10 -> "mm refund"
      [] OTHER -> "unknown"

\* config.FieldMappings["tx_log_type"]: the CASE expression evaluated by the store
SQLTypeLabel(payment_tx_type_id) ==
    CASE payment_tx_type_id = 0 -> "payment"
      [] payment_tx_type_id = 1 -> "reversal"
      [] payment_tx_type_id = 2 -> "void"
      [] payment_tx_type_id = 3 -> "refund"
      [] payment_tx_type_id = 9 -> "mm purchase"
      [] payment_tx_type_id = 10 -> "mm refund"
      [] OTHER -> "unknown"

\* models.Transaction.IsReversed
IsReversed(tx) == tx.ReversedTxLogID # <<>>

\* the columns of p.* that the derived fields read, and the JSON keys of the struct
TableColumns == {"payment_tx_log_id", "payment_tx_type_id", "reversed_tx_log_id", "amount"}
StructKeys == TableColumns \cup {"tx_log_type", "reversed"}

\* buildBaseQuery: the result columns of the select list; p.* when no field is
\* named, else one column per field, named by its alias
SelectedColumns(fields) == IF fields = {} THEN TableColumns ELSE fields

\* gorm First/Find into a zero models.Transaction: a field is set when the
\* result has its column; Type has no column of its own and is set, if the
\* driver maps aliases onto it, from the alias tx_log_type
Scan(row, columns, aliased) ==
    [ PaymentTxTypeID |-> IF "payment_tx_type_id" \in columns THEN row.typeID ELSE 0,
      ReversedTxLogID |-> IF "reversed_tx_log_id" \in columns THEN row.reversedID ELSE <<>>,
      Reversed        |-> "reversed" \in columns /\ row.reversedID # <<>>,
      Type            |-> IF "tx_log_type" \in columns /\ aliased
                          THEN SQLTypeLabel(row.typeID) ELSE "" ]

\* postProcessTransactions, on one element of the slice it is given
postProcessTransactions(tx) ==
    [tx EXCEPT !.Type = IF tx.Type = "" THEN GetTypeString(tx.PaymentTxTypeID) ELSE tx.Type,
               !.Reversed = IsReversed(tx)]

\* the fields a request names: subsets of three keys of config.FieldMappings
RFieldSets == SUBSET {"tx_log_type", "reversed", "amount"}

RRows == [typeID : TypeIDs, reversedID : Opt({"tx0"})] \cup {Nil}

InitRow ==
    /\ rreq \in [endpoint : {"list", "single"}, fields : RFieldSets]
    /\ rrow \in RRows
    /\ rpc = "start"
    /\ raliased \in BOOLEAN
    /\ rresp = Nil
    /\ IdleError
    /\ IdleQuery
    /\ IdleBackend
    /\ IdleCache
    /\ IdleFilter

\* GET /transactions: the service passes the fields as they are, the
\* repository post-processes the slice it fetched, the handler returns the
\* records, restricted to the named fields when fields are named
RList ==
    /\ rpc = "start"
    /\ rreq.endpoint = "list"
    /\ LET transactions == IF rrow = Nil THEN <<>>
                            ELSE << Scan(rrow, SelectedColumns(rreq.fields), raliased) >>
           processed == [i \in 1..Len(transactions) |-> postProcessTransactions(transactions[i])]
       IN  rresp' = [status |-> 200, data |-> processed,
                     shown |-> IF rreq.fields # {} THEN rreq.fields ELSE StructKeys]
    /\ rpc' = "done"
    /\ UNCHANGED <<rreq, rrow, raliased>>
    /\ UNCHANGED <<evars, qvars, bvars, cvars, fvars>>

\* GET /transactions/:id: the service fills in config.DefaultFields, the
\* repository post-processes a slice literal holding a copy of the record and
\* returns the address of the record it fetched; the handler returns it whole
RSingle ==
    /\ rpc = "start"
    /\ rreq.endpoint = "single"
    /\ LET fields == IF rreq.fields = {}
                     THEN {DefaultFields[i] : i \in 1..Len(DefaultFields)}
                     ELSE rreq.fields
       IN  IF rrow = Nil
           THEN rresp' = [status |-> 404, data |-> <<>>, shown |-> {}]
           ELSE LET transaction == Scan(rrow, SelectedColumns(fields), raliased)
                    copy == postProcessTransactions(transaction)
                IN  rresp' = [status |-> 200, data |-> <<transaction>>, shown |-> StructKeys]
    /\ rpc' = "done"
    /\ UNCHANGED <<rreq, rrow, raliased>>
    /\ UNCHANGED <<evars, qvars, bvars, cvars, fvars>>

NextRow ==
    \/ RList
    \/ RSingle

SpecRow == InitRow /\ [][NextRow]_vars

\* C27: every record that the list endpoint or the single-record endpoint
\* returns shows reversed as true exactly when the stored row has a
\* reversed-id, and shows as type label the fixed mapping of the stored
\* discriminator (0 payment, 1 reversal, 2 void, 3 refund, 9 mm purchase,
\* 10 mm refund, anything else unknown).
C27_DerivedRowFields ==
    (rpc = "done" /\ rresp.status = 200) =>
        \A i \in 1..Len(rresp.data) :
            /\ "reversed" \in rresp.shown =>
                   (rresp.data[i].Reversed <=> rrow.reversedID # <<>>)
            /\ "tx_log_type" \in rresp.shown =>
                   rresp.data[i].Type = GetTypeString(rrow.typeID)

(***************************************************************************)
(* A further claim checked under SpecFilter.                               *)
(***************************************************************************)
\* the joined rows of the merchant named in the path
RowsOfMerchant(merchantID) == { row \in JoinedRows : row.p.merchant_id = merchantID }

\* C29: a request to /merchants/{id}/transactions that is answered 200 has
\* the merchant_id of the path in its parsed filter, its count statement and
\* its list statement match rows of that merchant only, and the page it
\* returns holds rows of that merchant only.
C29_MerchantPathRestriction ==
    (fpc = "done" /\ fresp.status = 200 /\ freq.path # <<>>) =>
        /\ ffilter.MerchantID = freq.path
        /\ \A i \in 1..Len(fstmts) : Matching(fstmts[i]) \subseteq RowsOfMerchant(freq.path[1])
        /\ \A id \in frows : \E row \in RowsOfMerchant(freq.path[1]) : row.p.payment_tx_log_id = id

====
